---- MODULE Spec2Model ----
(***************************************************************************)
(* Batch pipeline of Nebula_LangGraph: select_ticker -> gather_data ->     *)
(* analyst (-> write_all_analysis -> ranking -> sheets_writer), run either *)
(* in one invocation (graph.py, run_pipeline) or stage by stage through    *)
(* checkpoint files (pipeline_stages.py, state_io.py).                     *)
(*                                                                         *)
(* Python values are represented as follows.                               *)
(*   str            a TLA+ string, or (identifiers) a sequence of 1-char   *)
(*                  strings so that strip() and upper() can be computed    *)
(*   None           the token None (identifiers) or an empty optional <<>> *)
(*   optional x     <<>> (absent / None) or <<x>>                          *)
(*   dict           a sequence of [key, value] pairs with distinct keys,   *)
(*                  in insertion order (Python dicts keep insertion order) *)
(*   exception      [cls, msg]; str(e) is msg, which may be ""             *)
(***************************************************************************)
EXTENDS Integers, Sequences, FiniteSets, TLC

VARIABLES
    calls,             \* the entry points the caller still has to invoke, in order
    mode,              \* the entry point being executed, "idle" between two
    env,               \* os.environ: which configuration values are set
    pc,                \* the node / stage step the run is at
    error,             \* <<>> or <<[stage, exc]>>: the exception the run ended with
    tickers,           \* state["tickers"]
    gathered_data,     \* state["gathered_data"]
    analysis_results,  \* state["analysis_results"]
    sem,               \* free permits of the asyncio.Semaphore of the running node
    fetch_one,         \* gather_data_node: one fetch_one coroutine per ticker
    analyze_one,       \* analyst_node: one analyze_one coroutine per gathered item
    files,             \* the checkpoint directory: artifact name -> optional content
    ranked_results,    \* state["ranked_results"]
    sheet_id,          \* state["sheet_id"]
    sink,              \* the calls made to the Google Sheets helpers, in order
    final_state        \* <<>> or <<the state run_pipeline returned to its caller>>

vars == <<calls, mode, env, pc, error, tickers, gathered_data, analysis_results,
          sem, fetch_one, analyze_one, files, ranked_results, sheet_id, sink,
          final_state>>

\* what the batch nodes and their stages leave alone
delivery == <<ranked_results, sheet_id, sink, final_state>>

-----------------------------------------------------------------------------
(* Program constants *)

CONCURRENCY_LIMIT == 5

MAX_RETRIES == 3

TransientClasses == {"ConnectionError", "TimeoutError", "OSError"}

-----------------------------------------------------------------------------
(* Bounds of the model *)

\* longest ticker list given to a whole run (Spec)
MaxItems == 2

\* largest batch given to a single batch node (SpecBatch); above CONCURRENCY_LIMIT
MaxBatch == 6

\* longest ticker list run both ways, whole and in stages (SpecEquiv)
MaxEquivItems == 2

\* longest ticker list given to select_ticker_node alone (SpecSelect)
MaxTokens == 3

\* largest batch whose messages go through the parser (SpecParse)
MaxParseItems == 1

\* longest analysis_results artifact given to run_stage_rank (SpecRank); above TOP_N
MaxRecords == 7

-----------------------------------------------------------------------------
(* Python helpers *)

None == <<"None">>

NoExc == [cls |-> "", msg |-> ""]

Range(s) == {s[i] : i \in 1..Len(s)}

\* str.strip(): drop leading and trailing blanks
RECURSIVE LStrip(_)
LStrip(s) == IF s # <<>> /\ Head(s) = " " THEN LStrip(Tail(s)) ELSE s

RECURSIVE RStrip(_)
RStrip(s) ==
    IF s # <<>> /\ s[Len(s)] = " " THEN RStrip(SubSeq(s, 1, Len(s) - 1)) ELSE s

Strip(s) == RStrip(LStrip(s))

UpperChar(c) ==
    CASE c = "a" -> "A"
      [] c = "b" -> "B"
      [] OTHER -> c

Upper(s) == [i \in 1..Len(s) |-> UpperChar(s[i])]

\* (t or ""): None and "" both give ""
OrEmpty(t) == IF t = None THEN <<>> ELSE t

\* dict as a sequence of [key, value] pairs
Keys(d) == {d[i].key : i \in 1..Len(d)}

KeySeq(d) == [i \in 1..Len(d) |-> d[i].key]

\* d[k] = v: overwrite in place when k is a key already, append otherwise
DictSet(d, k, v) ==
    IF k \in Keys(d)
    THEN [i \in 1..Len(d) |-> IF d[i].key = k THEN [key |-> k, value |-> v] ELSE d[i]]
    ELSE Append(d, [key |-> k, value |-> v])

\* the content of a file: well-formed JSON text of a value, or text that
\* json.load rejects (a file cut short, edited by hand, ...)
JsonDump(v) == [valid |-> TRUE, json |-> v]

Malformed == [valid |-> FALSE, json |-> <<>>]

\* json.dump followed by json.load of a value made of dicts with string keys,
\* lists, strings, numbers and None: the same value again
JsonLoad(content) == content.json

JSONDecodeError == [cls |-> "JSONDecodeError", msg |-> "Expecting value"]

\* json.loads raising it
JsonLoadsFails ==
    [raised |-> TRUE, exc |-> JSONDecodeError, value |-> <<>>]

-----------------------------------------------------------------------------
(* select_ticker_node *)

\* faulty variant: an identifier that is in the list already is left out
RECURSIVE NormalizeTickersUnique(_)
NormalizeTickersUnique(ts) ==
    IF ts = <<>> THEN <<>>
    ELSE LET rest == NormalizeTickersUnique(SubSeq(ts, 1, Len(ts) - 1))
             t == Upper(Strip(OrEmpty(ts[Len(ts)])))
         IN  IF t = <<>> \/ t \in Range(rest) THEN rest ELSE Append(rest, t)

\* [(t or "").strip().upper() for t in tickers if (t or "").strip()]
RECURSIVE NormalizeTickers(_)
NormalizeTickers(ts) ==
    IF ts = <<>> THEN <<>>
    ELSE LET t == Strip(OrEmpty(Head(ts)))
         IN  IF t # <<>>
             THEN <<Upper(t)>> \o NormalizeTickers(Tail(ts))
             ELSE NormalizeTickers(Tail(ts))

select_ticker_node(ts) == NormalizeTickers(ts)

-----------------------------------------------------------------------------
(* External collaborators: what one call can do *)

Returned(v) == [raised |-> FALSE, exc |-> NoExc, value |-> <<v>>]

Raised(e) == [raised |-> TRUE, exc |-> e, value |-> <<>>]

\* faults a network call raises; str(e) is empty for an exception built
\* without arguments, such as TimeoutError()
TimedOut == [cls |-> "TimeoutError", msg |-> "timed out"]

TimedOutBare == [cls |-> "TimeoutError", msg |-> ""]

AuthError == [cls |-> "AuthenticationError", msg |-> "invalid api key"]

ExecutorFault == [cls |-> "RuntimeError", msg |-> "cannot schedule new futures"]

Outcome(kind) == [kind |-> kind, exc |-> NoExc]

Raises(e) == [kind |-> "raise", exc |-> e]

\* yfinance: a price summary, an empty history, or a fault
PriceOutcomes ==
    {Outcome("data"), Outcome("nohist"), Raises(TimedOut), Raises(TimedOutBare)}

\* Tavily: snippets, nothing, or a fault escaping the search helper
CtxOutcomes == {Outcome("snippets"), Raises(TimedOut)}

\* loop.run_in_executor: the call runs, or the executor refuses it
ExecOutcomes == {"ran", "fault"}

\* fetch_stock_data: returns a dict, with an "error" key when there is no history
fetch_stock_data(t, po) ==
    CASE po.kind = "data" ->
           Returned([ticker |-> t, error |-> <<>>, prices |-> "dict"])
      [] po.kind = "nohist" ->
           Returned([ticker |-> t, error |-> <<"No history">>, prices |-> "None"])
      [] OTHER -> Raised(po.exc)

\* search_news_and_macro: without TAVILY_API_KEY it returns error lists
search_news_and_macro(key, co) ==
    IF ~key
    THEN Returned([news |-> <<"Error: TAVILY_API_KEY not set in environment">>,
                   macro |-> <<"Error: TAVILY_API_KEY not set in environment">>])
    ELSE CASE co.kind = "snippets" -> Returned([news |-> <<"n1">>, macro |-> <<"m1">>])
           [] co.kind = "empty" -> Returned([news |-> <<>>, macro |-> <<>>])
           [] OTHER -> Raised(co.exc)

-----------------------------------------------------------------------------
(* state_io: one JSON file per stage in the state directory *)

StateFileNotFound(name, stage) ==
    [cls |-> "FileNotFoundError",
     msg |-> "State file not found: " \o name \o ".json. Run stage '" \o stage
             \o "' first."]

\* faulty variant: a missing file is read as an empty value
LoadMissingAsEmpty(name, stage) == Returned(<<>>)

\* faulty variant: open() of the missing file fails by itself, without the hint
LoadMissingNoHint(name, stage) ==
    Raised([cls |-> "FileNotFoundError", msg |-> "No such file or directory"])

\* if not file_path.is_file(): raise FileNotFoundError(...)
LoadMissing(name, stage) == Raised(StateFileNotFound(name, stage))

\* the rest of a load: json.load(f) of the file that is there
LoadPresent(content) ==
    IF content.valid THEN Returned(JsonLoad(content)) ELSE Raised(JSONDecodeError)

load_gathered_data(file) ==
    IF file = <<>> THEN LoadMissing("gathered_data", "gather") ELSE LoadPresent(file[1])

load_analysis_results(file) ==
    IF file = <<>> THEN LoadMissing("analysis_results", "analyze")
    ELSE LoadPresent(file[1])

load_ranked_results(file) ==
    IF file = <<>> THEN LoadMissing("ranked_results", "rank") ELSE LoadPresent(file[1])

\* faulty variant: the file is opened in append mode
WriteFileAppend(file, v) ==
    IF file = <<>> \/ ~file[1].valid THEN <<JsonDump(v)>>
    ELSE <<JsonDump(file[1].json \o v)>>

\* open(file_path, "w") and json.dump: the file holds the new value only
WriteFile(file, v) == <<JsonDump(v)>>

\* each save writes the file of its own name in the state directory fs
save_gathered_data(fs, v) == [fs EXCEPT !.gathered_data = WriteFile(@, v)]

save_analysis_results(fs, v) == [fs EXCEPT !.analysis_results = WriteFile(@, v)]

\* faulty variant: the ranked list goes into the file of the analysis results
SaveRankedOverAnalysis(fs, v) == [fs EXCEPT !.analysis_results = WriteFile(@, v)]

save_ranked_results(fs, v) == [fs EXCEPT !.ranked_results = WriteFile(@, v)]

-----------------------------------------------------------------------------
(* Retry policy: tenacity's @retry(stop_after_attempt, retry_if_exception_type,
   reraise=True) around a function whose call number `attempt` ended as `res` *)

IsTransient(e) == e.cls \in TransientClasses

RetryDecision(res, attempt) ==
    IF ~res.raised THEN "return"
    ELSE IF IsTransient(res.exc) /\ attempt < MAX_RETRIES THEN "retry"
    ELSE "reraise"

-----------------------------------------------------------------------------
(* Item fetcher: the body of _fetch_one_ticker_sync *)

\* gathered["prices"]: the result, or an error marker when the call raised
GatheredPrices(t, pr) ==
    IF pr.raised
    THEN [ticker |-> t, error |-> <<pr.exc.msg>>, prices |-> "absent"]
    ELSE pr.value[1]

\* gathered["news"], gathered["macro"]
GatheredContext(nm) ==
    IF nm.raised
    THEN [news |-> <<"Error: " \o nm.exc.msg>>, macro |-> <<"Error: " \o nm.exc.msg>>]
    ELSE nm.value[1]

fetch_one_ticker_sync(t, po, co, key) ==
    LET prices == GatheredPrices(t, fetch_stock_data(t, po))
        ctx == GatheredContext(search_news_and_macro(key, co))
    IN  Returned([prices |-> prices, news |-> ctx.news, macro |-> ctx.macro])

-----------------------------------------------------------------------------
(* gather_data_node *)

\* a fetch_one coroutine before it has got its permit; priceRaised and
\* ctxRaised list the classes of the exceptions the market-data call and the
\* context search raised for it, unitRaised tells whether the offloaded call
\* ended with an exception
PendingFetch ==
    [pc |-> "pending", attempts |-> 0, priceCalls |-> 0, priceRaised |-> <<>>,
     ctxRaised |-> <<>>, unitRaised |-> FALSE, result |-> <<>>]

\* faulty variant: acquire that never waits
CanAcquireAlways(s) == TRUE

\* asyncio.Semaphore.acquire goes through only while a permit is free
CanAcquire(s) == s > 0

\* faulty variant: the permit is kept when the coroutine returns
ReleaseNever(s) == s

\* leaving `async with sem`, by return or by exception: the permit is free again
Release(s) == s + 1

\* faulty variant: the handler hands back an empty record instead of None
FetchOneExceptEmptyData(t, e) ==
    [kind |-> "tuple", ticker |-> t,
     data |-> <<[prices |-> [ticker |-> t, error |-> <<>>, prices |-> "absent"],
                 news |-> <<>>, macro |-> <<>>]>>]

\* faulty variant: the handler returns a bare None instead of the pair (ticker, None)
FetchOneExceptNone(t, e) == [kind |-> "none", ticker |-> t, data |-> <<>>]

\* fetch_one, except Exception: the item is skipped
FetchOneExcept(t, e) == [kind |-> "tuple", ticker |-> t, data |-> <<>>]

\* fetch_one: what the coroutine returns once the offloaded call ended as res
FetchOneResult(t, res) ==
    IF res.raised THEN FetchOneExcept(t, res.exc)
    ELSE [kind |-> "tuple", ticker |-> t, data |-> res.value]

\* the loop over results: exceptions are passed over, `ticker, data = r`
\* needs a pair, and only items with data are kept
RECURSIVE GatherAggregate(_, _)
GatherAggregate(results, acc) ==
    IF results = <<>> THEN Returned(acc)
    ELSE LET r == Head(results)
         IN  IF r.kind = "exception" THEN GatherAggregate(Tail(results), acc)
             ELSE IF r.kind # "tuple"
             THEN Raised([cls |-> "TypeError", msg |-> "cannot unpack"])
             ELSE IF r.data # <<>>
             THEN GatherAggregate(Tail(results), DictSet(acc, r.ticker, r.data[1]))
             ELSE GatherAggregate(Tail(results), acc)

\* faulty variant: the results are taken last first, not in the order of the
\* coroutines given to asyncio.gather
FetchResultsLastFirst ==
    [i \in 1..Len(fetch_one) |-> fetch_one[Len(fetch_one) + 1 - i].result[1]]

\* results = await asyncio.gather(...): one result per coroutine, in the
\* order of the coroutines
FetchResults == [i \in 1..Len(fetch_one) |-> fetch_one[i].result[1]]

AllFetched == \A i \in 1..Len(fetch_one) : fetch_one[i].pc = "done"

\* faulty variant: the graph without the edge into write_all_analysis
AfterNodeSkipRaw(m, node) ==
    CASE m = "run_pipeline" /\ node = "select_ticker" -> "gather_data"
      [] m = "run_pipeline" /\ node = "gather_data" -> "analyst"
      [] m = "run_pipeline" /\ node = "analyst" -> "ranking"
      [] m = "run_pipeline" /\ node = "ranking" -> "sheets_writer"
      [] m = "run_pipeline" /\ node = "sheets_writer" -> "END"
      [] m = "run_stage_gather" /\ node = "select_ticker" -> "gather_data"
      [] m = "run_stage_gather" /\ node = "gather_data" -> "save_gathered_data"
      [] m = "run_stage_analyze" /\ node = "analyst" -> "save_analysis_results"
      [] m = "run_stage_rank" /\ node = "ranking" -> "save_ranked_results"
      [] OTHER -> "idle"

\* where an entry point goes after a node
AfterNode(m, node) ==
    CASE m = "run_pipeline" /\ node = "select_ticker" -> "gather_data"
      [] m = "run_pipeline" /\ node = "gather_data" -> "analyst"
      [] m = "run_pipeline" /\ node = "analyst" -> "write_all_analysis"
      [] m = "run_pipeline" /\ node = "write_all_analysis" -> "ranking"
      [] m = "run_pipeline" /\ node = "ranking" -> "sheets_writer"
      [] m = "run_pipeline" /\ node = "sheets_writer" -> "END"
      [] m = "run_stage_gather" /\ node = "select_ticker" -> "gather_data"
      [] m = "run_stage_gather" /\ node = "gather_data" -> "save_gathered_data"
      [] m = "run_stage_analyze" /\ node = "analyst" -> "save_analysis_results"
      [] m = "run_stage_rank" /\ node = "ranking" -> "save_ranked_results"
      [] OTHER -> "idle"

\* the caller invokes the next entry point; each builds its initial state.
\* fetch_one and analyze_one keep what the last batch node did until an entry
\* point without batch node starts
Invoke ==
    /\ pc = "idle"
    /\ calls # <<>>
    /\ LET c == Head(calls)
       IN  /\ mode' = c.fn
           /\ calls' = Tail(calls)
           /\ tickers' = c.tickers
           /\ sheet_id' = c.sheet_id
           /\ pc' = CASE c.fn = "run_stage_analyze" -> "load_gathered_data"
                      [] c.fn = "run_stage_rank" -> "load_analysis_results"
                      [] c.fn = "run_stage_sheets" -> "load_ranked_results"
                      [] OTHER -> "select_ticker"
           /\ IF c.fn \in {"run_stage_rank", "run_stage_sheets"}
              THEN fetch_one' = <<>> /\ analyze_one' = <<>>
              ELSE UNCHANGED <<fetch_one, analyze_one>>
    /\ gathered_data' = <<>>
    /\ analysis_results' = <<>>
    /\ ranked_results' = <<>>
    /\ UNCHANGED <<env, error, sem, files, sink, final_state>>

SelectTicker ==
    /\ pc = "select_ticker"
    /\ tickers' = select_ticker_node(tickers)
    /\ pc' = AfterNode(mode, "select_ticker")
    /\ UNCHANGED delivery
    /\ UNCHANGED <<calls, mode, env, error, gathered_data, analysis_results, sem,
                   fetch_one, analyze_one, files>>

\* no tickers: an empty mapping at once; otherwise one coroutine per ticker
GatherStart ==
    /\ pc = "gather_data"
    /\ IF tickers = <<>>
       THEN /\ gathered_data' = <<>>
            /\ pc' = AfterNode(mode, "gather_data")
            /\ fetch_one' = <<>>
            /\ UNCHANGED sem
       ELSE /\ sem' = CONCURRENCY_LIMIT
            /\ fetch_one' = [i \in 1..Len(tickers) |-> PendingFetch]
            /\ pc' = "gathering"
            /\ UNCHANGED gathered_data
    /\ UNCHANGED delivery
    /\ UNCHANGED <<calls, mode, env, error, tickers, analysis_results, analyze_one,
                   files>>

\* async with sem: the coroutine gets a permit and offloads the fetch
FetchAcquire(i) ==
    /\ pc = "gathering"
    /\ fetch_one[i].pc = "pending"
    /\ CanAcquire(sem)
    /\ sem' = sem - 1
    /\ fetch_one' = [fetch_one EXCEPT ![i].pc = "running"]
    /\ UNCHANGED delivery
    /\ UNCHANGED <<calls, mode, env, pc, error, tickers, gathered_data,
                   analysis_results, analyze_one, files>>

\* one call of the body of _fetch_one_ticker_sync in the executor, under the
\* retry policy; on the last one the coroutine returns and frees its permit
FetchAttempt(i, po, co, xf) ==
    /\ pc = "gathering"
    /\ fetch_one[i].pc = "running"
    /\ LET t == tickers[i]
           c == fetch_one[i]
           ran == xf = "ran"
           res == IF ran THEN fetch_one_ticker_sync(t, po, co, env.TAVILY_API_KEY)
                  ELSE Raised(ExecutorFault)
           dec == IF ran THEN RetryDecision(res, c.attempts + 1) ELSE "reraise"
           h == IF ran
                THEN [c EXCEPT !.attempts = @ + 1,
                               !.priceCalls = @ + 1,
                               !.priceRaised = IF po.kind = "raise"
                                               THEN Append(@, po.exc.cls) ELSE @,
                               !.ctxRaised =
                                   IF search_news_and_macro(env.TAVILY_API_KEY, co).raised
                                   THEN Append(@, co.exc.cls) ELSE @]
                ELSE c
       IN  IF dec = "retry"
           THEN /\ fetch_one' = [fetch_one EXCEPT ![i] = h]
                /\ UNCHANGED sem
           ELSE /\ fetch_one' = [fetch_one EXCEPT ![i] =
                       [h EXCEPT !.pc = "done", !.unitRaised = res.raised,
                                 !.result = <<FetchOneResult(t, res)>>]]
                /\ sem' = Release(sem)
    /\ UNCHANGED delivery
    /\ UNCHANGED <<calls, mode, env, pc, error, tickers, gathered_data,
                   analysis_results, analyze_one, files>>

\* asyncio.gather has every result: build the mapping and return it
GatherFinish ==
    /\ pc = "gathering"
    /\ AllFetched
    /\ LET agg == GatherAggregate(FetchResults, <<>>)
       IN  IF agg.raised
           THEN /\ error' = <<[node |-> "gather_data", exc |-> agg.exc]>>
                /\ pc' = "raised"
                /\ UNCHANGED gathered_data
           ELSE /\ gathered_data' = agg.value[1]
                /\ pc' = AfterNode(mode, "gather_data")
                /\ UNCHANGED error
    /\ UNCHANGED delivery
    /\ UNCHANGED <<calls, mode, env, tickers, analysis_results, sem, fetch_one,
                   analyze_one, files>>

\* run_stage_gather: save_gathered_data, then return
SaveGathered ==
    /\ pc = "save_gathered_data"
    /\ files' = save_gathered_data(files, gathered_data)
    /\ pc' = "idle"
    /\ mode' = "idle"
    /\ UNCHANGED delivery
    /\ UNCHANGED <<calls, env, error, tickers, gathered_data, analysis_results, sem,
                   fetch_one, analyze_one>>

-----------------------------------------------------------------------------
(* analyst_node *)

\* datetime.now().strftime("%Y-%m-%d")
Today == "2025-01-01"

AnalysisRecord(t, pct, reason) ==
    [date |-> Today, ticker |-> t, predicted_change_pct |-> pct, reason |-> reason]

\* A value of a key of a parsed object: t tells its Python type, n its number,
\* s its string.  "numstr" is a string that float() accepts, "bigint" an int
\* beyond the range of float (both under predicted_change_pct only), "missing"
\* a key that is not there.
Field(t, n, s) == [t |-> t, n |-> n, s |-> s]

NoField == Field("missing", 0, "")

PyNone == Field("none", 0, "")

Num(n) == Field("num", n, "")

NumStr(n) == Field("numstr", n, "")

Str(x) == Field("str", 0, x)

BigInt == Field("bigint", 0, "")

ListField == Field("list", 0, "[1]")

\* what a parser returns: an object with the two keys of interest, or a value
\* of another type (list, int, str, set)
PyDict(pct, reason) == [type |-> "dict", pct |-> pct, reason |-> reason]

NonDict(type) == [type |-> type, pct |-> NoField, reason |-> NoField]

ParseError(cls) == Raised([cls |-> cls, msg |-> "parse error"])

\* A text is known by what the three parsers make of its JSON block:
\* json.loads(block), json.loads of the block after the quote repair and
\* ast.literal_eval(block).  form tells an empty text, a text of blanks and a
\* text with content apart; padded tells blanks around the content.
Text(strict, repair, literal) ==
    [form |-> "block", padded |-> FALSE, strict |-> strict, repair |-> repair,
     literal |-> literal]

EmptyText ==
    [form |-> "empty", padded |-> FALSE, strict |-> JsonLoadsFails,
     repair |-> JsonLoadsFails, literal |-> ParseError("SyntaxError")]

BlankText == [EmptyText EXCEPT !.form = "blank"]

Padded(text) == [text EXCEPT !.padded = TRUE]

HasNone(v) == v.pct.t = "none" \/ v.reason.t = "none"

\* '{"predicted_change_pct": 2.5, "reason": "ok"}': JSON; null is no literal
\* of ast.literal_eval
JsonObject(v) ==
    Text(Returned(v), Returned(v),
         IF HasNone(v) THEN ParseError("ValueError") ELSE Returned(v))

\* "{'predicted_change_pct': 2.5}": JSON once the quotes are repaired
SingleQuoted(v) == Text(JsonLoadsFails, Returned(v), Returned(v))

\* "{'predicted_change_pct': 2.5, 'reason': 'ok'}": the repair leaves 'ok'}
\* alone, only ast.literal_eval reads it
PythonLiteral(v) == Text(JsonLoadsFails, JsonLoadsFails, Returned(v))

\* "garbage" (ValueError), "{" (SyntaxError), "{{}}" (TypeError: unhashable
\* type: 'dict'): no parser reads it
Unparseable(cls) == Text(JsonLoadsFails, JsonLoadsFails, ParseError(cls))

\* '{"a":{"a": ... }}' nested thousands deep: json.loads gives up with
\* RecursionError
DeeplyNested ==
    Text(ParseError("RecursionError"), ParseError("RecursionError"),
         ParseError("SyntaxError"))

\* "{'a':{'a': ... }}" nested thousands deep: RecursionError after the repair
DeeplyNestedQuoted ==
    Text(JsonLoadsFails, ParseError("RecursionError"), ParseError("SyntaxError"))

JsonText(pct) == JsonObject(PyDict(Num(pct), Str("ok")))

GarbageText == Unparseable("ValueError")

\* A text written out: a sequence of tokens, each one character or a run of
\* characters that the code treats alike ("x" a word of prose, "2" a number,
\* the two key names, the two fence markers, " " white space).
LB == "{"

RB == "}"

\* the double quote and the single quote
DQ == "[dq]"

SQ == "[sq]"

\* the fence marker of three backquotes, bare and followed by the word json
Fence == "[fence]"

FenceJson == "[fence]json"

Blank == " "

\* s.find(c): the first place of c in s, 0 for the -1 of Python
Find(s, c) ==
    IF \E i \in 1..Len(s) : s[i] = c
    THEN CHOOSE i \in 1..Len(s) : s[i] = c /\ \A j \in 1..(i - 1) : s[j] # c
    ELSE 0

\* the loop of find_json_block from place i on, depth braces being open
RECURSIVE ScanBlock(_, _, _, _)
ScanBlock(s, start, i, depth) ==
    IF i > Len(s) THEN SubSeq(s, start, Len(s))
    ELSE IF s[i] = LB THEN ScanBlock(s, start, i + 1, depth + 1)
    ELSE IF s[i] = RB
    THEN IF depth - 1 = 0 THEN SubSeq(s, start, i)
         ELSE ScanBlock(s, start, i + 1, depth - 1)
    ELSE ScanBlock(s, start, i + 1, depth)

find_json_block(s) ==
    LET start == Find(s, LB)
    IN  IF start = 0 THEN s ELSE ScanBlock(s, start, start, 0)

\* s.replace(c, ""): every c taken out
RECURSIVE Remove(_, _)
Remove(s, c) ==
    IF s = <<>> THEN <<>>
    ELSE IF Head(s) = c THEN Remove(Tail(s), c)
    ELSE <<Head(s)>> \o Remove(Tail(s), c)

\* block = find_json_block(text); with a fence marker in it, the markers are
\* taken out of the block and the block is scanned again
JsonBlock(text) ==
    LET block == find_json_block(text)
    IN  IF \E i \in 1..Len(block) : block[i] \in {Fence, FenceJson}
        THEN find_json_block(Remove(Remove(block, FenceJson), Fence))
        ELSE block

\* the string made of the characters of r
RECURSIVE Concat(_)
Concat(r) == IF r = <<>> THEN "" ELSE Head(r) \o Concat(Tail(r))

\* the object {predicted_change_pct: 2, reason: r} written with the quote qk
\* around its keys and qs around its string
ObjectHead(qk, qs) ==
    <<LB, qk, "predicted_change_pct", qk, ":", "2", ",", qk, "reason", qk, ":", qs>>

ObjectChars(qk, qs, r) == ObjectHead(qk, qs) \o r \o <<qs, RB>>

\* b is such an object, with quotes out of QK and QS; the string ends at the
\* first quote of its kind
IsObject(b, QK, QS) ==
    /\ Len(b) >= Len(ObjectHead(DQ, DQ)) + 2
    /\ \E qk \in QK, qs \in QS :
          /\ SubSeq(b, 1, Len(ObjectHead(qk, qs))) = ObjectHead(qk, qs)
          /\ SubSeq(b, Len(b) - 1, Len(b)) = <<qs, RB>>
          /\ \A i \in (Len(ObjectHead(qk, qs)) + 1)..(Len(b) - 2) : b[i] # qs

ObjectOf(b) ==
    PyDict(Num(2), Str(Concat(SubSeq(b, Len(ObjectHead(DQ, DQ)) + 1, Len(b) - 2))))

\* json.loads(block): white space around the value is allowed, keys and
\* strings take double quotes
JsonLoads(block) ==
    LET b == Strip(block)
    IN  CASE IsObject(b, {DQ}, {DQ}) -> Returned(ObjectOf(b))
          [] b = <<LB, RB>> -> Returned(PyDict(NoField, NoField))
          [] b = <<"2">> -> Returned(NonDict("int"))
          [] OTHER -> JsonLoadsFails

\* ast.literal_eval(block): either quote will do; a name is no literal
\* (ValueError), a dict is no key of a dict (TypeError)
LiteralEval(block) ==
    LET b == Strip(block)
    IN  CASE IsObject(b, {DQ, SQ}, {DQ, SQ}) -> Returned(ObjectOf(b))
          [] b = <<LB, RB>> -> Returned(PyDict(NoField, NoField))
          [] b = <<"2">> -> Returned(NonDict("int"))
          [] b \in {<<"x">>, <<LB, "x", RB>>} -> ParseError("ValueError")
          [] b = <<LB, LB, RB, RB>> -> ParseError("TypeError")
          [] OTHER -> ParseError("SyntaxError")

\* re.sub of the quote repair: a single-quoted run without single quote in it,
\* followed by white space or none and a colon, a comma or a closing bracket,
\* gets double quotes
RECURSIVE QuoteRepair(_)
QuoteRepair(s) ==
    IF s = <<>> THEN <<>>
    ELSE LET closing == {j \in 2..Len(s) : s[j] = SQ}
             j == CHOOSE m \in closing : \A n \in closing : m <= n
             after == {k \in (j + 1)..Len(s) : s[k] # Blank}
             k == CHOOSE m \in after : \A n \in after : m <= n
             matches == /\ Head(s) = SQ
                        /\ closing # {}
                        /\ after # {}
                        /\ s[k] \in {":", ",", "]"}
         IN  IF matches
             THEN <<DQ>> \o SubSeq(s, 2, j - 1) \o <<DQ>> \o SubSeq(s, j + 1, k)
                  \o QuoteRepair(SubSeq(s, k + 1, Len(s)))
             ELSE <<Head(s)>> \o QuoteRepair(Tail(s))

\* the text with these characters: what the three parsers make of its block
Written(chars) ==
    LET block == JsonBlock(Strip(chars))
    IN  [form |-> IF chars = <<>> THEN "empty"
                  ELSE IF Strip(chars) = <<>> THEN "blank" ELSE "block",
         padded |-> Strip(chars) # chars,
         strict |-> JsonLoads(block),
         repair |-> JsonLoads(QuoteRepair(block)),
         literal |-> LiteralEval(block),
         chars |-> chars]

\* msg.content: None, a str, a dict with or without a str under "text", or a
\* list of such parts
RawNone == [shape |-> "none", parts |-> <<>>]

RawStr(text) == [shape |-> "str", parts |-> <<text>>]

RawDict(text) == [shape |-> "dict", parts |-> <<text>>]

RawDictNoText == [shape |-> "dict_no_text", parts |-> <<>>]

RawList(parts) == [shape |-> "list", parts |-> parts]

\* str(raw) of a dict without a str under "text", e.g. "{'type': 'image'}"
ReprText == PythonLiteral(PyDict(NoField, NoField))

\* str.strip()
StripText(text) ==
    IF text.form \in {"empty", "blank"} THEN EmptyText ELSE [text EXCEPT !.padded = FALSE]

\* " ".join(parts) of at most one part
JoinParts(parts) == IF parts = <<>> THEN EmptyText ELSE parts[1]

extract_text_from_llm_response(raw) ==
    CASE raw.shape = "none" -> EmptyText
      [] raw.shape = "str" -> StripText(raw.parts[1])
      [] raw.shape = "dict" -> StripText(raw.parts[1])
      [] raw.shape = "dict_no_text" -> StripText(ReprText)
      [] OTHER -> StripText(JoinParts(raw.parts))

Says(text) == [kind |-> "text", exc |-> NoExc, raw |-> RawStr(text)]

Answers(raw) == [kind |-> "text", exc |-> NoExc, raw |-> raw]

Fails(e) == [kind |-> "raise", exc |-> e, raw |-> RawNone]

\* chain.invoke: a message, or a fault of the provider
GenOutcomes == {Says(JsonText(2)), Says(GarbageText), Fails(TimedOut), Fails(AuthError)}

\* except (ValueError, SyntaxError) around ast.literal_eval
LiteralCaught(cls) == cls \in {"ValueError", "SyntaxError"}

\* except json.JSONDecodeError around json.loads
JsonCaught(cls) == cls = "JSONDecodeError"

\* the three attempts of _parse_llm_output on a text with content: the
\* parsers called, in order, and how the last one ended (raised with a
\* handled class: every parser failed)
ParseBlock(text) ==
    IF ~text.strict.raised \/ ~JsonCaught(text.strict.exc.cls)
    THEN [tried |-> <<"strict">>, res |-> text.strict]
    ELSE IF ~text.repair.raised \/ ~JsonCaught(text.repair.exc.cls)
    THEN [tried |-> <<"strict", "repair">>, res |-> text.repair]
    ELSE [tried |-> <<"strict", "repair", "literal">>, res |-> text.literal]

\* float(parsed.get("predicted_change_pct", 0))
FloatOf(f) ==
    CASE f.t \in {"num", "numstr"} -> Returned(f.n)
      [] f.t = "missing" -> Returned(0)
      [] f.t = "str" -> ParseError("ValueError")
      [] f.t = "bigint" -> ParseError("OverflowError")
      [] OTHER -> ParseError("TypeError")

\* str.strip() of the reasons that occur
StripReason(x) ==
    CASE x = "  " -> ""
      [] x = " ok " -> "ok"
      [] OTHER -> x

\* str(parsed.get("reason", "") or "").strip() or "No reason provided."
ReasonOf(f) ==
    LET truthy == CASE f.t = "str" -> f.s # ""
                    [] f.t = "num" -> f.n # 0
                    [] f.t = "list" -> TRUE
                    [] OTHER -> FALSE
        text == IF ~truthy THEN ""
                ELSE CASE f.t = "str" -> StripReason(f.s)
                       [] f.t = "num" -> ToString(f.n)
                       [] OTHER -> f.s
    IN  IF text = "" THEN "No reason provided." ELSE text

\* _parse_llm_output: the record, or the exception that escapes, and the
\* parsers it called
parse_llm_output(raw_text, t) ==
    LET text == extract_text_from_llm_response(RawStr(raw_text))
        p == ParseBlock(text)
        failed == AnalysisRecord(t, 0, "Could not parse LLM output.")
    IN  IF text.form = "empty"
        THEN [tried |-> <<>>,
              res |-> Returned(AnalysisRecord(t, 0, "Could not parse LLM output (empty)."))]
        ELSE [tried |-> p.tried,
              res |->
                IF p.res.raised
                THEN IF Len(p.tried) = 3 /\ LiteralCaught(p.res.exc.cls)
                     THEN Returned(failed) ELSE p.res
                ELSE LET parsed == p.res.value[1]
                         pct == FloatOf(parsed.pct)
                     IN  IF parsed.type # "dict" THEN Returned(failed)
                         ELSE IF pct.raised /\ pct.exc.cls \notin {"TypeError", "ValueError"}
                         THEN pct
                         ELSE Returned(AnalysisRecord(t,
                                  IF pct.raised THEN 0 ELSE pct.value[1],
                                  ReasonOf(parsed.reason)))]

\* faulty variant: the handler lets the fault of the generation call through
AnalyzeSyncExceptReraise(t, e) == Raised(e)

\* _analyze_one_ticker_sync, except Exception: an error record is returned
AnalyzeSyncExcept(t, e) == Returned(AnalysisRecord(t, 0, "Analysis error: " \o e.msg))

\* the body of _analyze_one_ticker_sync, its generation call ending as go
analyze_one_ticker_sync(t, go) ==
    IF go.kind = "raise" THEN AnalyzeSyncExcept(t, go.exc)
    ELSE parse_llm_output(extract_text_from_llm_response(go.raw), t).res

\* the parsers that call of the body called
ParsersTried(t, go) ==
    IF go.kind = "raise" THEN <<>>
    ELSE parse_llm_output(extract_text_from_llm_response(go.raw), t).tried

\* faulty variant: an error marker in the context lists counts as well
PricesOrContextError(data) ==
    \/ data.prices.error # <<>> /\ data.prices.error[1] # ""
    \/ data.news = <<"Error: timed out">>

\* isinstance(prices, dict) and prices.get("error")
PricesError(data) == data.prices.error # <<>> /\ data.prices.error[1] # ""

\* analyze_one, except Exception: an error record is returned
AnalyzeOneExcept(t, e) ==
    [kind |-> "dict", rec |-> <<AnalysisRecord(t, 0, "Error: " \o e.msg)>>]

\* analyze_one: what the coroutine returns once the offloaded call ended as res
AnalyzeOneResult(t, res) ==
    IF res.raised THEN AnalyzeOneExcept(t, res.exc)
    ELSE [kind |-> "dict", rec |-> res.value]

\* analyze_one returning None for an item without valid price data
SkippedResult == [kind |-> "none", rec |-> <<>>]

\* an analyze_one coroutine before it has got its permit; genRaised lists the
\* classes of the exceptions the generation call raised for it, said holds
\* the content of the last message it got, tried the parsers called on it
PendingAnalyze ==
    [pc |-> "pending", attempts |-> 0, genCalls |-> 0, genRaised |-> <<>>,
     said |-> <<>>, tried |-> <<>>, unitRaised |-> FALSE, result |-> <<>>]

\* the loop over results: exceptions and None are passed over, dicts appended
RECURSIVE AnalystAggregate(_)
AnalystAggregate(results) ==
    IF results = <<>> THEN <<>>
    ELSE LET r == Head(results)
         IN  IF r.kind = "dict"
             THEN <<r.rec[1]>> \o AnalystAggregate(Tail(results))
             ELSE AnalystAggregate(Tail(results))

AnalyzeResults == [k \in 1..Len(analyze_one) |-> analyze_one[k].result[1]]

AllAnalyzed == \A k \in 1..Len(analyze_one) : analyze_one[k].pc = "done"

\* nothing gathered: an empty list at once; no DEEPSEEK_API_KEY: ValueError;
\* otherwise one coroutine per gathered item
AnalystStart ==
    /\ pc = "analyst"
    /\ IF gathered_data = <<>>
       THEN /\ analysis_results' = <<>>
            /\ pc' = AfterNode(mode, "analyst")
            /\ analyze_one' = <<>>
            /\ UNCHANGED <<sem, error>>
       ELSE IF ~env.DEEPSEEK_API_KEY
       THEN /\ error' = <<[node |-> "analyst",
                           exc |-> [cls |-> "ValueError",
                                    msg |-> "DEEPSEEK_API_KEY not set in environment"]]>>
            /\ pc' = "raised"
            /\ analyze_one' = <<>>
            /\ UNCHANGED <<sem, analysis_results>>
       ELSE /\ sem' = CONCURRENCY_LIMIT
            /\ analyze_one' = [k \in 1..Len(gathered_data) |-> PendingAnalyze]
            /\ pc' = "analyzing"
            /\ UNCHANGED <<analysis_results, error>>
    /\ UNCHANGED delivery
    /\ UNCHANGED <<calls, mode, env, tickers, gathered_data, fetch_one, files>>

\* async with sem: with an error marker for prices the coroutine returns None
\* at once (permit taken and given back in one step); otherwise it offloads
AnalyzeAcquire(k) ==
    /\ pc = "analyzing"
    /\ analyze_one[k].pc = "pending"
    /\ CanAcquire(sem)
    /\ IF PricesError(gathered_data[k].value)
       THEN /\ analyze_one' = [analyze_one EXCEPT ![k].pc = "done",
                                                  ![k].result = <<SkippedResult>>]
            /\ UNCHANGED sem
       ELSE /\ analyze_one' = [analyze_one EXCEPT ![k].pc = "running"]
            /\ sem' = sem - 1
    /\ UNCHANGED delivery
    /\ UNCHANGED <<calls, mode, env, pc, error, tickers, gathered_data,
                   analysis_results, fetch_one, files>>

\* one call of the body of _analyze_one_ticker_sync in the executor, under the
\* retry policy; on the last one the coroutine returns and frees its permit
AnalyzeAttempt(k, go, xf) ==
    /\ pc = "analyzing"
    /\ analyze_one[k].pc = "running"
    /\ LET t == gathered_data[k].key
           c == analyze_one[k]
           ran == xf = "ran"
           res == IF ran THEN analyze_one_ticker_sync(t, go) ELSE Raised(ExecutorFault)
           dec == IF ran THEN RetryDecision(res, c.attempts + 1) ELSE "reraise"
           h == IF ran
                THEN [c EXCEPT !.attempts = @ + 1,
                               !.genCalls = @ + 1,
                               !.genRaised = IF go.kind = "raise"
                                             THEN Append(@, go.exc.cls) ELSE @,
                               !.said = IF go.kind = "raise" THEN <<>>
                                        ELSE <<go.raw>>,
                               !.tried = ParsersTried(t, go)]
                ELSE c
       IN  IF dec = "retry"
           THEN /\ analyze_one' = [analyze_one EXCEPT ![k] = h]
                /\ UNCHANGED sem
           ELSE /\ analyze_one' = [analyze_one EXCEPT ![k] =
                       [h EXCEPT !.pc = "done", !.unitRaised = res.raised,
                                 !.result = <<AnalyzeOneResult(t, res)>>]]
                /\ sem' = Release(sem)
    /\ UNCHANGED delivery
    /\ UNCHANGED <<calls, mode, env, pc, error, tickers, gathered_data,
                   analysis_results, fetch_one, files>>

\* asyncio.gather has every result: build the list and return it
AnalystFinish ==
    /\ pc = "analyzing"
    /\ AllAnalyzed
    /\ analysis_results' = AnalystAggregate(AnalyzeResults)
    /\ pc' = AfterNode(mode, "analyst")
    /\ UNCHANGED delivery
    /\ UNCHANGED <<calls, mode, env, error, tickers, gathered_data, sem, fetch_one,
                   analyze_one, files>>

-----------------------------------------------------------------------------
(* run_stage_analyze around analyst_node *)

\* faulty variant: with nothing gathered the stage saves an empty list
NothingToAnalyzeSaved(fs) ==
    save_analysis_results(fs, <<>>)

\* if not gathered_data: return []; the state directory is left as it was
NothingToAnalyze(fs) == fs

\* load_gathered_data raising ends the stage with that exception; an empty
\* mapping ends the stage with nothing written
LoadGathered ==
    /\ pc = "load_gathered_data"
    /\ LET res == load_gathered_data(files.gathered_data)
       IN
       IF res.raised
       THEN /\ error' = <<[node |-> "load_gathered_data", exc |-> res.exc]>>
            /\ pc' = "raised"
            /\ UNCHANGED <<mode, tickers, gathered_data, files>>
       ELSE LET loaded == res.value[1]
            IN  IF loaded = <<>>
                THEN /\ pc' = "idle"
                     /\ mode' = "idle"
                     /\ files' = NothingToAnalyze(files)
                     /\ UNCHANGED <<error, tickers, gathered_data>>
                ELSE /\ tickers' = KeySeq(loaded)
                     /\ gathered_data' = loaded
                     /\ pc' = "analyst"
                     /\ UNCHANGED <<error, mode, files>>
    /\ UNCHANGED delivery
    /\ UNCHANGED <<calls, env, analysis_results, sem, fetch_one, analyze_one>>

\* save_analysis_results; then, asked for a new sheet and having results, the
\* stage goes on to write it, otherwise it returns
SaveAnalysis(create_new_sheet) ==
    /\ pc = "save_analysis_results"
    /\ files' = save_analysis_results(files, analysis_results)
    /\ IF create_new_sheet /\ analysis_results # <<>>
       THEN pc' = "create_new_sheet" /\ UNCHANGED mode
       ELSE pc' = "idle" /\ mode' = "idle"
    /\ UNCHANGED delivery
    /\ UNCHANGED <<calls, env, error, tickers, gathered_data, analysis_results, sem,
                   fetch_one, analyze_one>>

-----------------------------------------------------------------------------
(* Google Sheets helpers and the nodes that call them *)

SinkFault == [cls |-> "APIError", msg |-> "quota exceeded"]

\* a call of a helper: it writes, or gspread / the credentials fail
SinkOutcomes == {"ok", "fail"}

write_results_to_new_sheet(so) ==
    IF so = "ok" THEN Returned("new-sheet-id") ELSE Raised(SinkFault)

append_results_to_sheet(so) == IF so = "ok" THEN Returned("rows") ELSE Raised(SinkFault)

SinkCall(op, target, rows, so) ==
    [op |-> op, target |-> target, rows |-> rows, ok |-> so = "ok"]

\* faulty variant: the failure of the raw write is passed on
WriteAllExceptReraise(e) == Raised(e)

\* write_all_analysis_to_sheet_node, except Exception: a warning, then {}
WriteAllExcept(e) == Returned(<<>>)

\* write_all_analysis_to_sheet_node: nothing to do without results
write_all_analysis_to_sheet_node(results, so) ==
    IF results = <<>> THEN Returned(<<>>)
    ELSE LET w == write_results_to_new_sheet(so)
         IN  IF w.raised THEN WriteAllExcept(w.exc) ELSE Returned(<<>>)

WriteAllAnalysis(so) ==
    /\ pc = "write_all_analysis"
    /\ LET res == write_all_analysis_to_sheet_node(analysis_results, so)
       IN  /\ sink' = IF analysis_results = <<>> THEN sink
                      ELSE Append(sink, SinkCall("write_results_to_new_sheet",
                                                 "Stock Analysis", analysis_results, so))
           /\ IF res.raised
              THEN /\ error' = <<[node |-> "write_all_analysis", exc |-> res.exc]>>
                   /\ pc' = "raised"
              ELSE /\ pc' = AfterNode(mode, "write_all_analysis")
                   /\ UNCHANGED error
    /\ UNCHANGED <<calls, mode, env, tickers, gathered_data, analysis_results, sem,
                   fetch_one, analyze_one, files, ranked_results, sheet_id,
                   final_state>>

\* run_stage_analyze with create_new_sheet: the same write, its failure
\* printed as a warning; then the stage returns
CreateNewSheet(so) ==
    /\ pc = "create_new_sheet"
    /\ sink' = Append(sink, SinkCall("write_results_to_new_sheet", "Stock Analysis",
                                     analysis_results, so))
    /\ pc' = "idle"
    /\ mode' = "idle"
    /\ UNCHANGED <<calls, env, error, tickers, gathered_data, analysis_results, sem,
                   fetch_one, analyze_one, files, ranked_results, sheet_id,
                   final_state>>

\* faulty variant: the sheet named in the state is not looked at
SheetTargetEnvOnly(sid, envsid) == envsid

\* state.get("sheet_id") or os.getenv("GOOGLE_SHEET_ID", "")
SheetTarget(sid, envsid) == IF sid # "" THEN sid ELSE envsid

\* sheets_writer_node, except Exception: RuntimeError to the caller
SheetsWriterExcept(e) ==
    Raised([cls |-> "RuntimeError", msg |-> "Google Sheets write failed: " \o e.msg])

\* sheets_writer_node: nothing to do without ranked results or without a sheet
sheets_writer_node(ranked, sid, envsid, so) ==
    IF ranked = <<>> THEN Returned(<<>>)
    ELSE IF SheetTarget(sid, envsid) = "" THEN Returned(<<>>)
    ELSE LET w == append_results_to_sheet(so)
         IN  IF w.raised THEN SheetsWriterExcept(w.exc) ELSE Returned(<<>>)

SheetsWriter(so) ==
    /\ pc = "sheets_writer"
    /\ LET target == SheetTarget(sheet_id, env.GOOGLE_SHEET_ID)
           res == sheets_writer_node(ranked_results, sheet_id, env.GOOGLE_SHEET_ID, so)
           nxt == AfterNode(mode, "sheets_writer")
       IN  /\ sink' = IF ranked_results = <<>> \/ target = "" THEN sink
                      ELSE Append(sink, SinkCall("append_results_to_sheet", target,
                                                 ranked_results, so))
           /\ IF res.raised
              THEN /\ error' = <<[node |-> "sheets_writer", exc |-> res.exc]>>
                   /\ pc' = "raised"
                   /\ UNCHANGED mode
              ELSE /\ pc' = nxt
                   /\ mode' = IF nxt = "idle" THEN "idle" ELSE mode
                   /\ UNCHANGED error
    /\ UNCHANGED <<calls, env, tickers, gathered_data, analysis_results, sem,
                   fetch_one, analyze_one, files, ranked_results, sheet_id,
                   final_state>>

\* the graph reached END: run_pipeline returns the final state
ReturnFinalState ==
    /\ pc = "END"
    /\ final_state' = <<[tickers |-> tickers, gathered_data |-> gathered_data,
                         analysis_results |-> analysis_results,
                         ranked_results |-> ranked_results, sheet_id |-> sheet_id]>>
    /\ pc' = "idle"
    /\ mode' = "idle"
    /\ UNCHANGED <<calls, env, error, tickers, gathered_data, analysis_results, sem,
                   fetch_one, analyze_one, files, ranked_results, sheet_id, sink>>

-----------------------------------------------------------------------------
(* ranking_node *)

TOP_N == 5

\* faulty variant: a record with no predicted change is kept
IsNonNegative(r) == r.predicted_change_pct >= 0

\* (r.get("predicted_change_pct") or 0) > 0
IsPositive(r) == r.predicted_change_pct > 0

\* [r for r in results if ...]
RECURSIVE Positive(_)
Positive(results) ==
    IF results = <<>> THEN <<>>
    ELSE IF IsPositive(Head(results))
    THEN <<Head(results)>> \o Positive(Tail(results))
    ELSE Positive(Tail(results))

\* faulty variant: ascending stable sort read backwards, which turns ties round
SortedInsertTiesFirst(acc, r) ==
    LET n == Cardinality({i \in 1..Len(acc) :
                            acc[i].predicted_change_pct > r.predicted_change_pct})
    IN  SubSeq(acc, 1, n) \o <<r>> \o SubSeq(acc, n + 1, Len(acc))

\* list.sort(key=..., reverse=True) is stable: a record goes behind every
\* record placed before it whose key is greater or equal
SortedInsert(acc, r) ==
    LET n == Cardinality({i \in 1..Len(acc) :
                            acc[i].predicted_change_pct >= r.predicted_change_pct})
    IN  SubSeq(acc, 1, n) \o <<r>> \o SubSeq(acc, n + 1, Len(acc))

RECURSIVE SortDescending(_, _)
SortDescending(rest, acc) ==
    IF rest = <<>> THEN acc
    ELSE SortDescending(Tail(rest), SortedInsert(acc, Head(rest)))

\* positive[:TOP_N]
TopN(rs) == SubSeq(rs, 1, IF Len(rs) < TOP_N THEN Len(rs) ELSE TOP_N)

ranking_node(results) == TopN(SortDescending(Positive(results), <<>>))

Ranking ==
    /\ pc = "ranking"
    /\ ranked_results' = ranking_node(analysis_results)
    /\ pc' = AfterNode(mode, "ranking")
    /\ UNCHANGED <<calls, mode, env, error, tickers, gathered_data, analysis_results,
                   sem, fetch_one, analyze_one, files, sheet_id, sink, final_state>>

-----------------------------------------------------------------------------
(* run_stage_rank and run_stage_sheets *)

\* load_analysis_results raising ends the stage with that exception
LoadAnalysis ==
    /\ pc = "load_analysis_results"
    /\ LET res == load_analysis_results(files.analysis_results)
       IN  IF res.raised
           THEN /\ error' = <<[node |-> "load_analysis_results", exc |-> res.exc]>>
                /\ pc' = "raised"
                /\ UNCHANGED analysis_results
           ELSE /\ analysis_results' = res.value[1]
                /\ pc' = "ranking"
                /\ UNCHANGED error
    /\ UNCHANGED <<calls, mode, env, tickers, gathered_data, sem, fetch_one,
                   analyze_one, files, ranked_results, sheet_id, sink, final_state>>

\* save_ranked_results, then return
SaveRanked ==
    /\ pc = "save_ranked_results"
    /\ files' = save_ranked_results(files, ranked_results)
    /\ pc' = "idle"
    /\ mode' = "idle"
    /\ UNCHANGED <<calls, env, error, tickers, gathered_data, analysis_results, sem,
                   fetch_one, analyze_one, ranked_results, sheet_id, sink,
                   final_state>>

\* load_ranked_results raising ends the stage with that exception; an empty
\* list ends it with nothing written
LoadRanked ==
    /\ pc = "load_ranked_results"
    /\ LET res == load_ranked_results(files.ranked_results)
       IN  IF res.raised
           THEN /\ error' = <<[node |-> "load_ranked_results", exc |-> res.exc]>>
                /\ pc' = "raised"
                /\ UNCHANGED <<mode, ranked_results>>
           ELSE IF res.value[1] = <<>>
           THEN /\ pc' = "idle"
                /\ mode' = "idle"
                /\ UNCHANGED <<error, ranked_results>>
           ELSE /\ ranked_results' = res.value[1]
                /\ pc' = "sheets_writer"
                /\ UNCHANGED <<error, mode>>
    /\ UNCHANGED <<calls, env, tickers, gathered_data, analysis_results, sem,
                   fetch_one, analyze_one, files, sheet_id, sink, final_state>>

-----------------------------------------------------------------------------
(* Runs *)

\* a call of an entry point; sheet_id is "" unless the caller gives one
CallWithSheet(fn, ts, sid) == [fn |-> fn, tickers |-> ts, sheet_id |-> sid]

Call(fn, ts) == CallWithSheet(fn, ts, "")

\* ticker tokens as a caller may give them: None, blank, padded, lower case
RawTokens == {None, <<" ">>, <<"a">>, <<" ", "A">>, <<"b", " ">>}

TokenLists(n) == UNION {[1..k -> RawTokens] : k \in 0..n}

\* identifiers of a large batch: T1, T2, ...
Ident(i) == <<"T", ToString(i)>>

Idents(n) == [i \in 1..n |-> Ident(i)]

NoFiles == [gathered_data |-> <<>>, analysis_results |-> <<>>, ranked_results |-> <<>>]

\* a gathered_data artifact of n items as run_stage_gather leaves it; the
\* first `bad` items have an empty price history
GatheredArtifact(n, bad) ==
    JsonDump([i \in 1..n |->
        [key |-> Ident(i),
         value |-> fetch_one_ticker_sync(Ident(i),
                       IF i <= bad THEN Outcome("nohist") ELSE Outcome("data"),
                       Outcome("snippets"), TRUE).value[1]]])

InitCommon ==
    /\ mode = "idle"
    /\ pc = "idle"
    /\ error = <<>>
    /\ tickers = <<>>
    /\ gathered_data = <<>>
    /\ analysis_results = <<>>
    /\ sem = CONCURRENCY_LIMIT
    /\ fetch_one = <<>>
    /\ analyze_one = <<>>
    /\ ranked_results = <<>>
    /\ sheet_id = ""
    /\ sink = <<>>
    /\ final_state = <<>>

\* os.environ with everything configured
Configured ==
    [DEEPSEEK_API_KEY |-> TRUE, TAVILY_API_KEY |-> TRUE, GOOGLE_SHEET_ID |-> "env-sheet"]

\* the stages in the order a staged run goes through them
StagedCalls(ts) ==
    <<Call("run_stage_gather", ts), Call("run_stage_analyze", <<>>),
      Call("run_stage_rank", <<>>), Call("run_stage_sheets", <<>>)>>

\* the sheet a caller of run_pipeline may name: none, or one of its own
SheetArgs == {"", "arg-sheet"}

\* a whole run on up to MaxItems tokens: run_pipeline, with or without a
\* sheet of the caller, or the stages in order; at most one configuration
\* value is missing
Init ==
    /\ InitCommon
    /\ env \in {Configured, [Configured EXCEPT !.DEEPSEEK_API_KEY = FALSE],
                 [Configured EXCEPT !.TAVILY_API_KEY = FALSE],
                 [Configured EXCEPT !.GOOGLE_SHEET_ID = ""]}
    /\ files = NoFiles
    /\ \E ts \in TokenLists(MaxItems) :
          calls \in {<<CallWithSheet("run_pipeline", ts, sid)>> : sid \in SheetArgs}
                       \cup {StagedCalls(ts)}

\* one batch stage on up to MaxBatch items, everything configured
InitBatch ==
    /\ InitCommon
    /\ env = Configured
    /\ \E n \in 0..MaxBatch :
          \/ /\ calls = <<Call("run_stage_gather", Idents(n))>>
             /\ files = NoFiles
          \/ /\ calls = <<Call("run_stage_analyze", <<>>)>>
             /\ \E bad \in {0, 1} :
                   /\ bad <= n
                   /\ files = [NoFiles EXCEPT
                                  !.gathered_data = <<GatheredArtifact(n, bad)>>]

Step(PO, CO, GO, XO, NS) ==
    \/ Invoke
    \/ SelectTicker
    \/ GatherStart
    \/ \E i \in 1..Len(fetch_one) : FetchAcquire(i)
    \/ \E i \in 1..Len(fetch_one), po \in PO, co \in CO, xf \in XO :
          FetchAttempt(i, po, co, xf)
    \/ GatherFinish
    \/ SaveGathered
    \/ LoadGathered
    \/ AnalystStart
    \/ \E k \in 1..Len(analyze_one) : AnalyzeAcquire(k)
    \/ \E k \in 1..Len(analyze_one), go \in GO, xf \in XO : AnalyzeAttempt(k, go, xf)
    \/ AnalystFinish
    \/ \E ns \in NS : SaveAnalysis(ns)

\* the steps after the batch nodes that the stages share with the graph
Deliver(SO) ==
    \/ LoadAnalysis
    \/ Ranking
    \/ SaveRanked
    \/ LoadRanked
    \/ \E so \in SO : SheetsWriter(so)

Next ==
    \/ Step(PriceOutcomes, CtxOutcomes, GenOutcomes, ExecOutcomes, BOOLEAN)
    \/ \E so \in SinkOutcomes : WriteAllAnalysis(so)
    \/ \E so \in SinkOutcomes : CreateNewSheet(so)
    \/ ReturnFinalState
    \/ Deliver(SinkOutcomes)

Spec == Init /\ [][Next]_vars

NextBatch ==
    Step({Outcome("data")}, {Outcome("snippets")}, {Says(JsonText(2)), Fails(TimedOut)},
         ExecOutcomes, {FALSE})

SpecBatch == InitBatch /\ [][NextBatch]_vars

\* the same under the scheduling of the event loop and of the executor: a
\* coroutine that can go on, and a call that was offloaded, is run in the end
LiveBatch == SpecBatch /\ WF_vars(NextBatch)

\* predicted changes of the records given to the ranker: at 0 and above, with
\* ties; the example list adds a value below 0
PctValues == {0, 1, 2}

ExamplePcts == <<5, -1, 3, 0, 7, 2>>

PctLists(n) == UNION {[1..k -> PctValues] : k \in 0..n}

\* analysis results as analyst_node leaves them, one record per identifier
RecordList(ps) == [i \in 1..Len(ps) |-> AnalysisRecord(Ident(i), ps[i], "ok")]

RankInputs == {RecordList(ps) : ps \in PctLists(MaxRecords) \cup {ExamplePcts}}

\* an artifact as a stage may find it: not there, not JSON, or one of values
Artifacts(values) == {<<>>, <<Malformed>>} \cup {<<JsonDump(v)>> : v \in values}

\* the later stages on a state directory left by earlier runs: ranking twice
\* and delivery; delivery alone; analysis with nothing usable gathered
InitRank ==
    /\ InitCommon
    /\ \/ /\ env \in {Configured, [Configured EXCEPT !.GOOGLE_SHEET_ID = ""]}
          /\ calls = <<Call("run_stage_rank", <<>>), Call("run_stage_rank", <<>>),
                       Call("run_stage_sheets", <<>>)>>
          /\ \E a \in Artifacts(RankInputs) :
                files = [NoFiles EXCEPT !.analysis_results = a]
       \/ /\ env \in {Configured, [Configured EXCEPT !.GOOGLE_SHEET_ID = ""]}
          /\ \E sid \in SheetArgs :
                calls = <<CallWithSheet("run_stage_sheets", <<>>, sid)>>
          /\ \E r \in Artifacts({<<>>, RecordList(<<2>>)}) :
                files = [NoFiles EXCEPT !.ranked_results = r]
       \/ /\ env = Configured
          /\ calls = <<Call("run_stage_analyze", <<>>), Call("run_stage_rank", <<>>)>>
          /\ \E g \in Artifacts({<<>>}), a \in Artifacts({RecordList(<<2>>)}) :
                files = [NoFiles EXCEPT !.gathered_data = g, !.analysis_results = a]

NextRank ==
    \/ Invoke
    \/ LoadGathered
    \/ Deliver(SinkOutcomes)

SpecRank == InitRank /\ [][NextRank]_vars

\* one world for two runs: what the collaborators do for an identifier is
\* fixed by the identifier, so that both runs meet the same outcomes
World(t) ==
    LET fine == [price |-> Outcome("data"), ctx |-> Outcome("snippets"),
                 fetch_exec |-> "ran", gen |-> Says(JsonText(2)), gen_exec |-> "ran"]
    IN  CASE t = <<"B">> -> [fine EXCEPT !.gen = Says(JsonText(3))]
          [] t = <<"N">> -> [fine EXCEPT !.price = Outcome("nohist")]
          [] t = <<"X">> -> [fine EXCEPT !.fetch_exec = "fault"]
          [] t = <<"G">> -> [fine EXCEPT !.gen = Fails(TimedOut)]
          [] OTHER -> fine

EquivTokens == {<<" ">>, <<"a">>, <<"B">>, <<"N">>, <<"X">>, <<"G">>}

EquivLists(n) == UNION {[1..k -> EquivTokens] : k \in 0..n}

\* the state directory after an earlier staged run on one identifier
EarlierRun ==
    [gathered_data |-> <<GatheredArtifact(1, 0)>>,
     analysis_results |-> <<JsonDump(<<AnalysisRecord(Ident(1), 2, "ok")>>)>>,
     ranked_results |-> <<JsonDump(<<AnalysisRecord(Ident(1), 2, "ok")>>)>>]

\* the same tickers through run_pipeline and then through the stages, on a
\* state directory that is empty or left by an earlier run
InitEquiv ==
    /\ InitCommon
    /\ env = Configured
    /\ files \in {NoFiles, EarlierRun}
    /\ \E ts \in EquivLists(MaxEquivItems) :
          calls = <<Call("run_pipeline", ts), Call("run_stage_gather", ts),
                    Call("run_stage_analyze", <<>>), Call("run_stage_rank", <<>>)>>

NextEquiv ==
    \/ Invoke
    \/ SelectTicker
    \/ GatherStart
    \/ \E i \in 1..Len(fetch_one) : FetchAcquire(i)
    \/ \E i \in 1..Len(fetch_one) :
          FetchAttempt(i, World(tickers[i]).price, World(tickers[i]).ctx,
                       World(tickers[i]).fetch_exec)
    \/ GatherFinish
    \/ SaveGathered
    \/ LoadGathered
    \/ AnalystStart
    \/ \E k \in 1..Len(analyze_one) : AnalyzeAcquire(k)
    \/ \E k \in 1..Len(analyze_one) :
          AnalyzeAttempt(k, World(gathered_data[k].key).gen,
                         World(gathered_data[k].key).gen_exec)
    \/ AnalystFinish
    \/ SaveAnalysis(FALSE)
    \/ \E so \in SinkOutcomes : WriteAllAnalysis(so)
    \/ LoadAnalysis
    \/ Ranking
    \/ SaveRanked
    \/ \E so \in SinkOutcomes : SheetsWriter(so)
    \/ ReturnFinalState

SpecEquiv == InitEquiv /\ [][NextEquiv]_vars

\* values under predicted_change_pct and under reason in a parsed object
PctFields == {Num(2), Num(-1), NumStr(3), Str("abc"), PyNone, ListField, NoField, BigInt}

ReasonFields ==
    {Str("ok"), Str(" ok "), Str(""), Str("  "), PyNone, NoField, Num(5), Num(0),
     ListField}

ParsedDicts == {PyDict(p, r) : p \in PctFields, r \in ReasonFields}

\* the texts a message may hold
Texts ==
    {EmptyText, BlankText, DeeplyNested, DeeplyNestedQuoted}
    \cup {JsonObject(v) : v \in ParsedDicts}
    \cup {JsonObject(NonDict(type)) : type \in {"list", "int"}}
    \cup {SingleQuoted(v) : v \in {PyDict(Num(2), NoField), NonDict("list")}}
    \cup {PythonLiteral(v) : v \in {PyDict(Num(2), Str("ok")), PyDict(PyNone, PyNone),
                                      NonDict("set"), NonDict("str")}}
    \cup {Unparseable(cls) : cls \in {"ValueError", "SyntaxError", "TypeError"}}

\* the shapes of msg.content around a few of them
Contents ==
    {RawStr(text) : text \in Texts}
    \cup {RawStr(Padded(JsonText(2))), RawNone, RawDictNoText, RawList(<<>>)}
    \cup {RawDict(text) : text \in {JsonText(2), BlankText, Padded(GarbageText)}}
    \cup {RawList(<<text>>) : text \in {JsonText(2), EmptyText, Padded(GarbageText)}}

\* run_stage_analyze on up to MaxParseItems gathered items with usable data
InitParse ==
    /\ InitCommon
    /\ env = Configured
    /\ calls = <<Call("run_stage_analyze", <<>>)>>
    /\ \E n \in 1..MaxParseItems :
          files = [NoFiles EXCEPT !.gathered_data = <<GatheredArtifact(n, 0)>>]

NextParse ==
    \/ Invoke
    \/ LoadGathered
    \/ AnalystStart
    \/ \E k \in 1..Len(analyze_one) : AnalyzeAcquire(k)
    \/ \E k \in 1..Len(analyze_one), raw \in Contents :
          AnalyzeAttempt(k, Answers(raw), "ran")
    \/ AnalystFinish
    \/ SaveAnalysis(FALSE)

SpecParse == InitParse /\ [][NextParse]_vars

\* the reason of the object: plain, with a closing brace, with an opening
\* brace, with a pair of braces, with a fence marker
Reasons ==
    {<<"o", "k">>, <<"a", RB, "b">>, <<"a", LB, "b">>, <<LB, RB>>, <<"a", Fence, "b">>}

\* what a message has before the object: nothing, prose, a fence, both,
\* prose with braces of its own, white space
Before ==
    {<<>>, <<"x", Blank>>, <<FenceJson, Blank>>, <<"x", Blank, FenceJson, Blank>>,
     <<"x", LB, "x", RB, Blank>>, <<Blank>>}

\* and after it: nothing, the closing fence, prose, both
After == {<<>>, <<Blank, Fence>>, <<Blank, "x">>, <<Blank, Fence, Blank, "x">>}

Quotes == {DQ, SQ}

\* messages with the object in them
Embedded ==
    {pre \o ObjectChars(qk, qs, r) \o post :
        pre \in Before, post \in After, qk \in Quotes, qs \in Quotes, r \in Reasons}

\* run_stage_analyze on one gathered item, the message being one of them
NextBlock ==
    \/ Invoke
    \/ LoadGathered
    \/ AnalystStart
    \/ \E k \in 1..Len(analyze_one) : AnalyzeAcquire(k)
    \/ \E k \in 1..Len(analyze_one), chars \in Embedded :
          AnalyzeAttempt(k, Says(Written(chars)), "ran")
    \/ AnalystFinish
    \/ SaveAnalysis(FALSE)

SpecBlock == InitParse /\ [][NextBlock]_vars

\* ticker entries as a caller may give them: None, empty, blank, lower case,
\* padded on either side, with a blank inside
SelectTokens ==
    {None, <<>>, <<" ">>, <<"a">>, <<" ", "A">>, <<"b", " ">>, <<"a", " ", "b">>}

\* the gather stage asked for twice on the same list of up to MaxTokens
\* entries
InitSelect ==
    /\ InitCommon
    /\ env = Configured
    /\ files = NoFiles
    /\ \E ts \in UNION {[1..n -> SelectTokens] : n \in 0..MaxTokens} :
          calls = <<Call("run_stage_gather", ts), Call("run_stage_gather", ts)>>

\* the stage up to the return of select_ticker_node
NextSelect ==
    \/ Invoke
    \/ SelectTicker

SpecSelect == InitSelect /\ [][NextSelect]_vars

-----------------------------------------------------------------------------
(* Properties *)

InFlightFetch == Cardinality({i \in 1..Len(fetch_one) : fetch_one[i].pc = "running"})

InFlightAnalyze ==
    Cardinality({k \in 1..Len(analyze_one) : analyze_one[k].pc = "running"})

\* gather_data_node has just returned to its caller
AfterGather ==
    /\ mode \in {"run_pipeline", "run_stage_gather"}
    /\ pc \in {"analyst", "save_gathered_data"}

\* analyst_node is running its items, or has just returned to its caller
InAnalyst == pc = "analyzing"

AfterAnalyst == pc \in {"write_all_analysis", "save_analysis_results"}

\* the record carries an error marker in place of price data
MarketDataFailed(data) == data.prices.error # <<>>

RecordTickers == [n \in 1..Len(analysis_results) |-> analysis_results[n].ticker]

HasRecord(t) == \E n \in 1..Len(analysis_results) : analysis_results[n].ticker = t

AllTransient(classes) == \A n \in 1..Len(classes) : classes[n] \in TransientClasses

SomeNonTransient(classes) == \E n \in 1..Len(classes) : classes[n] \notin TransientClasses

\* C1: in gather_data_node and in analyst_node, whatever the batch size, at
\* most CONCURRENCY_LIMIT per-item operations hold a permit at any moment.
C1_AtMostLimitInFlight ==
    /\ InFlightFetch <= CONCURRENCY_LIMIT
    /\ InFlightAnalyze <= CONCURRENCY_LIMIT

\* a batch larger than the limit with every permit taken and an item waiting
C1_Witness ==
    /\ pc = "gathering"
    /\ Len(fetch_one) > CONCURRENCY_LIMIT
    /\ InFlightFetch = CONCURRENCY_LIMIT
    /\ \E i \in 1..Len(fetch_one) : fetch_one[i].pc = "pending"

\* C2: gather_data_node does not raise for a per-item failure; the mapping it
\* returns has exactly the identifiers whose unit of work returned data, and
\* a failing item gives its permit back, so that every sibling completes.
C2_GatherSkipsFailedItems ==
    /\ error = <<>> \/ error[1].node # "gather_data"
    /\ pc = "gathering" => sem = CONCURRENCY_LIMIT - InFlightFetch
    /\ AfterGather =>
          /\ AllFetched
          /\ Keys(gathered_data) =
                {tickers[i] : i \in {j \in 1..Len(fetch_one) : ~fetch_one[j].unitRaised}}

\* gather_data_node returned after one item failed and a sibling succeeded
C2_Witness ==
    /\ AfterGather
    /\ \E i, j \in 1..Len(fetch_one) :
          /\ fetch_one[i].unitRaised
          /\ ~fetch_one[j].unitRaised
          /\ tickers[i] # tickers[j]
          /\ tickers[j] \in Keys(gathered_data)
          /\ tickers[i] \notin Keys(gathered_data)

\* C3: for a gathered record with an error marker in place of price data,
\* analyst_node makes no generation call and returns no record, while every
\* sibling with usable market data gets its outcome.
C3_NoGenerationWithoutMarketData ==
    (InAnalyst \/ AfterAnalyst) =>
        \A k \in 1..Len(analyze_one) :
            IF MarketDataFailed(gathered_data[k].value)
            THEN /\ analyze_one[k].pc # "running"
                 /\ analyze_one[k].genCalls = 0
                 /\ AfterAnalyst => ~HasRecord(gathered_data[k].key)
            ELSE AfterAnalyst => HasRecord(gathered_data[k].key)

\* C4: after analyst_node returns, analysis_results has exactly one record for
\* every key of gathered_data with usable market data and none for any other
\* identifier.
C4_OneRecordPerUsableKey ==
    AfterAnalyst =>
        /\ \A m, n \in 1..Len(analysis_results) :
              analysis_results[m].ticker = analysis_results[n].ticker => m = n
        /\ Range(RecordTickers) =
              {gathered_data[k].key :
                  k \in {j \in 1..Len(gathered_data) :
                            ~MarketDataFailed(gathered_data[j].value)}}

\* C5: a transient fault of the market-data call is re-attempted; the error
\* marker goes into the record only once MAX_RETRIES calls have failed.
C5_MarketDataRetried ==
    \A i \in 1..Len(fetch_one) :
        ( /\ fetch_one[i].pc = "done"
          /\ fetch_one[i].priceCalls >= 1
          /\ Len(fetch_one[i].priceRaised) = fetch_one[i].priceCalls
          /\ AllTransient(fetch_one[i].priceRaised) )
        => fetch_one[i].priceCalls = MAX_RETRIES

\* C6: a transient fault of the generation call is retried: an item whose
\* generation calls all failed transiently has had MAX_RETRIES of them, and
\* no item has more.
C6_GenerationRetried ==
    \A k \in 1..Len(analyze_one) :
        /\ analyze_one[k].genCalls <= MAX_RETRIES
        /\ ( /\ analyze_one[k].pc = "done"
             /\ analyze_one[k].genCalls >= 1
             /\ Len(analyze_one[k].genRaised) = analyze_one[k].genCalls
             /\ AllTransient(analyze_one[k].genRaised) )
           => analyze_one[k].genCalls = MAX_RETRIES

\* C7: an item whose generation call faults on every attempt is skipped: it
\* has no record in analysis_results, and the siblings with usable market
\* data have theirs.
C7_FaultedItemSkipped ==
    AfterAnalyst =>
        \A k \in 1..Len(analyze_one) :
            IF /\ analyze_one[k].genCalls >= 1
               /\ Len(analyze_one[k].genRaised) = analyze_one[k].genCalls
            THEN ~HasRecord(gathered_data[k].key)
            ELSE ~MarketDataFailed(gathered_data[k].value)
                     => HasRecord(gathered_data[k].key)

\* C8 as stated: a non-transient fault of a generation call aborts the stage,
\* so analyst_node never returns results after one.
C8_NonTransientAborts ==
    AfterAnalyst =>
        \A k \in 1..Len(analyze_one) : ~SomeNonTransient(analyze_one[k].genRaised)

\* C8 amended: a non-transient fault of a generation call is not retried (the
\* call is made once) and does not abort the stage: the item gets the record
\* with predicted_change_pct 0.0 and reason "Analysis error: <message>", and
\* analyst_node returns it among its results.
C8_NonTransientNotRetriedNoAbort ==
    \A k \in 1..Len(analyze_one) :
        SomeNonTransient(analyze_one[k].genRaised) =>
            /\ analyze_one[k].genCalls = 1
            /\ analyze_one[k].pc = "done"
            /\ analyze_one[k].result[1] =
                  [kind |-> "dict",
                   rec |-> <<AnalysisRecord(gathered_data[k].key, 0,
                                            "Analysis error: " \o AuthError.msg)>>]
            /\ error = <<>> \/ error[1].node # "analyst"
            /\ AfterAnalyst => analyze_one[k].result[1].rec[1] \in Range(analysis_results)

\* analyst_node returned its results although a generation call raised a
\* non-transient fault
C8_Witness ==
    /\ AfterAnalyst
    /\ \E k \in 1..Len(analyze_one) : SomeNonTransient(analyze_one[k].genRaised)

\* C9: a batch node raises only before any of its per-item operations has
\* begun: an exception out of gather_data_node or analyst_node is never
\* accompanied by a coroutine of that node that has got its permit.
C9_AbortOnlyBeforeItemWork ==
    error # <<>> =>
        /\ error[1].node = "gather_data" =>
              \A i \in 1..Len(fetch_one) : fetch_one[i].pc = "pending"
        /\ error[1].node = "analyst" =>
              \A k \in 1..Len(analyze_one) : analyze_one[k].pc = "pending"

\* analyst_node raised on the missing key with items to analyse, none begun
C9_Witness ==
    /\ pc = "raised"
    /\ error # <<>>
    /\ error[1].node = "analyst"
    /\ gathered_data # <<>>
    /\ \A k \in 1..Len(analyze_one) : analyze_one[k].pc = "pending"

\* C10: every required configuration value is validated before batch work:
\* with one missing, no per-item fetch of the gather stage is ever issued.
C10_ConfigValidatedBeforeFetch ==
    (~env.DEEPSEEK_API_KEY \/ ~env.TAVILY_API_KEY) =>
        \A i \in 1..Len(fetch_one) : fetch_one[i].pc = "pending"

-----------------------------------------------------------------------------
(* Ranking *)

\* ranking_node has just returned to its caller
AfterRanking ==
    \/ pc = "save_ranked_results"
    \/ mode = "run_pipeline" /\ pc = "sheets_writer"

Count(rs, r) == Cardinality({i \in 1..Len(rs) : rs[i] = r})

Pcts(rs) == [i \in 1..Len(rs) |-> rs[i].predicted_change_pct]

PositiveIndexes == {i \in 1..Len(analysis_results) : Pcts(analysis_results)[i] > 0}

Included(i) == analysis_results[i] \in Range(ranked_results)

\* where a record of the output stood in the input (the records are distinct)
InputIndex(r) == CHOOSE i \in 1..Len(analysis_results) : analysis_results[i] = r

\* C11: the output of ranking_node is a sub-list of its input (no record
\* more often than there), has at most TOP_N records, all with a
\* predicted_change_pct above 0, in non-increasing order of it.
C11_RankedWithinBounds ==
    AfterRanking =>
        /\ \A r \in Range(ranked_results) :
              Count(ranked_results, r) <= Count(analysis_results, r)
        /\ Len(ranked_results) <= TOP_N
        /\ \A n \in 1..Len(ranked_results) : Pcts(ranked_results)[n] > 0
        /\ \A m, n \in 1..Len(ranked_results) :
              m < n => Pcts(ranked_results)[m] >= Pcts(ranked_results)[n]

\* more than TOP_N positive records and a record at 0 went in, TOP_N came out
C11_Witness ==
    /\ AfterRanking
    /\ Cardinality(PositiveIndexes) > TOP_N
    /\ 0 \in Range(Pcts(analysis_results))
    /\ Len(ranked_results) = TOP_N

\* C12: ranking_node is "keep the records above 0, stable-sort descending,
\* take the first TOP_N": it returns min(TOP_N, number of positives) records,
\* so all of them when there are fewer than TOP_N and none when there is
\* none; an omitted positive record is not larger than an included one and,
\* when equal, stood behind it in the input; included records are in
\* descending order and, when equal, in input order; the values
\* [5, -1, 3, 0, 7, 2] give [7, 5, 3, 2].
C12_RankingIsReference ==
    AfterRanking =>
        /\ Len(ranked_results) =
              IF Cardinality(PositiveIndexes) < TOP_N
              THEN Cardinality(PositiveIndexes) ELSE TOP_N
        /\ Range(ranked_results) \subseteq {analysis_results[i] : i \in PositiveIndexes}
        /\ \A i, j \in PositiveIndexes :
              (~Included(i) /\ Included(j)) =>
                  \/ Pcts(analysis_results)[i] < Pcts(analysis_results)[j]
                  \/ Pcts(analysis_results)[i] = Pcts(analysis_results)[j] /\ j < i
        /\ \A m, n \in 1..Len(ranked_results) :
              m < n =>
                  \/ Pcts(ranked_results)[m] > Pcts(ranked_results)[n]
                  \/ /\ Pcts(ranked_results)[m] = Pcts(ranked_results)[n]
                     /\ InputIndex(ranked_results[m]) < InputIndex(ranked_results[n])
        /\ Pcts(analysis_results) = ExamplePcts => Pcts(ranked_results) = <<7, 5, 3, 2>>

\* TOP_N records came out, two of them equal, and a positive record equal to
\* an included one was left out
C12_Witness ==
    /\ AfterRanking
    /\ Len(ranked_results) = TOP_N
    /\ \E i, j \in PositiveIndexes :
          /\ ~Included(i)
          /\ Included(j)
          /\ Pcts(analysis_results)[i] = Pcts(analysis_results)[j]
    /\ \E m, n \in 1..Len(ranked_results) :
          m < n /\ Pcts(ranked_results)[m] = Pcts(ranked_results)[n]

\* C13: run_stage_rank run again on an unchanged analysis_results artifact
\* writes the ranked_results artifact it wrote before, and no step of the
\* stage changes the analysis_results artifact.
C13_RankStageIdempotent ==
    [][mode = "run_stage_rank" =>
          /\ files'.analysis_results = files.analysis_results
          /\ (pc = "save_ranked_results" /\ files.ranked_results # <<>>) =>
                files'.ranked_results = files.ranked_results]_vars

\* the second of two runs of the stage has returned, with records ranked
C13_Witness ==
    /\ pc = "idle"
    /\ Len(calls) = 1
    /\ Head(calls).fn = "run_stage_sheets"
    /\ files.analysis_results # <<>>
    /\ files.ranked_results # <<>>
    /\ JsonLoad(files.ranked_results[1]) # <<>>

-----------------------------------------------------------------------------
(* Stages and whole runs *)

\* run_pipeline has returned and the last of the stages is running or done
StagedAfterWhole == final_state # <<>> /\ calls = <<>> /\ mode # "run_pipeline"

\* C14: gather, analyze and rank run as stages through the state directory
\* (empty or left by an earlier run) end with the set of AnalysisRecords and
\* the RankedRecords that run_pipeline returned for the same tickers and the
\* same outcomes; in particular the stages do not fail where it returned.
C14_StagedEqualsWhole ==
    StagedAfterWhole =>
        /\ pc # "raised"
        /\ pc = "idle" =>
              /\ files.analysis_results # <<>>
              /\ files.ranked_results # <<>>
              /\ Range(JsonLoad(files.analysis_results[1])) =
                    Range(final_state[1].analysis_results)
              /\ JsonLoad(files.ranked_results[1]) = final_state[1].ranked_results

\* a stage that reads a checkpoint is running
InStage == mode \in {"run_stage_analyze", "run_stage_rank", "run_stage_sheets"}

\* the artifact the running stage needs, and the stage that writes it
StageInputName ==
    CASE mode = "run_stage_analyze" -> "gathered_data"
      [] mode = "run_stage_rank" -> "analysis_results"
      [] OTHER -> "ranked_results"

StageInput == files[StageInputName]

LoadStep == "load_" \o StageInputName

PriorStage(name) ==
    CASE name = "gathered_data" -> "gather"
      [] name = "analysis_results" -> "analyze"
      [] OTHER -> "rank"

IsMissing(file) == file = <<>>

IsEmpty(file) == file # <<>> /\ file[1].valid /\ file[1].json = <<>>

\* C15 as stated: run_stage_analyze, run_stage_rank and run_stage_sheets do
\* not fail when their checkpoint input is missing or empty.
C15_MissingOrEmptyInputSkips ==
    (InStage /\ (IsMissing(StageInput) \/ IsEmpty(StageInput))) => pc # "raised"

\* C15 amended: with its input artifact present and empty a stage does not
\* fail: run_stage_analyze and run_stage_sheets return before their node
\* runs, run_stage_rank ranks the empty list; nothing goes to the sink. With
\* its input artifact missing a stage fails at once, with FileNotFoundError.
C15_EmptySkipsMissingFails ==
    InStage =>
        /\ IsEmpty(StageInput) =>
              /\ pc \notin {"raised", "analyst", "analyzing", "sheets_writer"}
              /\ pc = "save_ranked_results" => ranked_results = <<>>
              /\ sink = <<>>
        /\ IsMissing(StageInput) =>
              \/ pc = LoadStep
              \/ /\ pc = "raised"
                 /\ error[1].node = LoadStep
                 /\ error[1].exc.cls = "FileNotFoundError"

\* run_stage_rank failed on the missing analysis_results artifact
C15_Witness ==
    /\ mode = "run_stage_rank"
    /\ IsMissing(StageInput)
    /\ pc = "raised"

\* C16: a load of an artifact that is not there fails with FileNotFoundError
\* whose message names the file and the stage to run first, for each of the
\* three artifacts; a load of an artifact that is there and malformed fails
\* with another error, json.JSONDecodeError; no other load fails.
C16_NotFoundDistinctFromMalformed ==
    /\ (pc = "raised" /\ error[1].node = LoadStep) =>
          IF IsMissing(StageInput)
          THEN error[1].exc =
                  [cls |-> "FileNotFoundError",
                   msg |-> "State file not found: " \o StageInputName
                           \o ".json. Run stage '" \o PriorStage(StageInputName)
                           \o "' first."]
          ELSE /\ ~StageInput[1].valid
               /\ error[1].exc.cls = "JSONDecodeError"
    /\ (InStage /\ (IsMissing(StageInput) \/ ~StageInput[1].valid)) =>
          pc \in {LoadStep, "raised"}

\* run_stage_sheets failed on the missing ranked_results artifact
C16_Witness ==
    /\ mode = "run_stage_sheets"
    /\ IsMissing(StageInput)
    /\ pc = "raised"
    /\ error[1].node = "load_ranked_results"

\* the nodes of the graph in the order of the claim: normalize, fetch-all,
\* generate-all, sink-all-raw, rank, sink-ranked, and the end of the graph
StageOrder ==
    <<"select_ticker", "gather_data", "analyst", "write_all_analysis", "ranking",
      "sheets_writer", "END">>

\* the node a position of the run belongs to
NodeOf(p) ==
    CASE p = "gathering" -> "gather_data"
      [] p = "analyzing" -> "analyst"
      [] OTHER -> p

StageIndex(p) == CHOOSE n \in 1..Len(StageOrder) : StageOrder[n] = NodeOf(p)

InGraph(p) == NodeOf(p) \in Range(StageOrder)

\* C17: run_pipeline goes through its nodes in the order select_ticker,
\* gather_data, analyst, write_all_analysis, ranking, sheets_writer: it
\* starts at the first, a step leaves a node only for the next one in the
\* order (or ends the run with the exception the node raised), never for an
\* earlier or a later one, so no node runs twice or is passed over; and a
\* node starts only when every item of the batch nodes before it is done.
C17_FixedStageOrder ==
    /\ [](mode = "run_pipeline" =>
            /\ InGraph(pc) \/ pc = "raised"
            /\ (InGraph(pc) /\ StageIndex(pc) > 2) => AllFetched
            /\ (InGraph(pc) /\ StageIndex(pc) > 3) => AllAnalyzed)
    /\ [][/\ (mode # "run_pipeline" /\ mode' = "run_pipeline") =>
                pc' = StageOrder[1]
          /\ (mode = "run_pipeline" /\ pc' # pc) =>
                \/ pc' = "raised"
                \/ pc = "END" /\ mode' = "idle"
                \/ NodeOf(pc') = NodeOf(pc)
                \/ /\ mode' = "run_pipeline"
                   /\ InGraph(pc')
                   /\ StageIndex(pc') = StageIndex(pc) + 1]_vars

\* a whole run reached the end of the graph after both sink writes were made
C17_Witness ==
    /\ mode = "run_pipeline"
    /\ pc = "END"
    /\ Len(sink) = 2

FailedWrites(op) == {n \in 1..Len(sink) : sink[n].op = op /\ ~sink[n].ok}

\* C18: a failed write of the ranked results makes sheets_writer_node raise
\* (RuntimeError) and ends the run; a failed write of all analysis results
\* is swallowed: neither write_all_analysis_to_sheet_node nor
\* run_stage_analyze raises for it, the graph goes on to ranking, and
\* analysis_results and ranked_results are what analyst_node and ranking_node
\* return whatever the write did.
C18_RankedWriteFatalRawWriteSwallowed ==
    /\ FailedWrites("append_results_to_sheet") # {} =>
          /\ pc = "raised"
          /\ error[1].node = "sheets_writer"
          /\ error[1].exc.cls = "RuntimeError"
    /\ error = <<>> \/ error[1].node # "write_all_analysis"
    /\ (pc = "raised" /\ error[1].node = "sheets_writer") =>
          FailedWrites("append_results_to_sheet") # {}
    /\ (mode = "run_pipeline" /\ pc \in {"ranking", "sheets_writer", "END"}) =>
          analysis_results = AnalystAggregate(AnalyzeResults)
    /\ (mode = "run_pipeline" /\ pc \in {"sheets_writer", "END"}) =>
          ranked_results = ranking_node(analysis_results)
    /\ (mode = "run_stage_analyze" /\ pc = "create_new_sheet") =>
          files.analysis_results = <<JsonDump(analysis_results)>>

\* the write of all analysis results failed and the run went on to rank and
\* to write the ranked results
C18_Witness ==
    /\ mode = "run_pipeline"
    /\ pc = "END"
    /\ FailedWrites("write_results_to_new_sheet") # {}
    /\ ranked_results # <<>>
    /\ Len(sink) = 2

-----------------------------------------------------------------------------
(* Structured-output extraction *)

\* the generation call of item k returned a message and the item is done
Parsed(k) == analyze_one[k].pc = "done" /\ analyze_one[k].said # <<>>

\* the text of that message
GivenText(k) == extract_text_from_llm_response(analyze_one[k].said[1])

RecordOf(k) == analyze_one[k].result[1].rec[1]

\* C19: _parse_llm_output never raises: whatever the content of the message
\* (None, str, dict, list) and whatever the three parsers make of it, the
\* call ends without exception and with a record of the four fields date,
\* ticker, predicted_change_pct, reason.
C19_ParseNeverRaises ==
    \A k \in 1..Len(analyze_one) :
        Parsed(k) =>
            /\ ~analyze_one[k].unitRaised
            /\ DOMAIN RecordOf(k) = {"date", "ticker", "predicted_change_pct", "reason"}
            /\ RecordOf(k).ticker = gathered_data[k].key

\* C20: the parsers are called in the order strict, repair, literal, each
\* only when the one before failed; when all of them fail, or the value
\* parsed is no dict, the record has predicted_change_pct 0 and the reason
\* "Could not parse LLM output."; an empty text gives predicted_change_pct 0
\* and the reason "Could not parse LLM output (empty)." with no parser called.
C20_ParsersInOrderWithFallbacks ==
    \A k \in 1..Len(analyze_one) :
        Parsed(k) =>
            LET text == GivenText(k)
                tried == analyze_one[k].tried
                t == gathered_data[k].key
                first == IF ~text.strict.raised THEN text.strict
                         ELSE IF ~text.repair.raised THEN text.repair
                         ELSE text.literal
            IN  IF text.form = "empty"
                THEN /\ tried = <<>>
                     /\ ~analyze_one[k].unitRaised
                     /\ RecordOf(k) =
                           AnalysisRecord(t, 0, "Could not parse LLM output (empty).")
                ELSE /\ tried = IF ~text.strict.raised THEN <<"strict">>
                                ELSE IF ~text.repair.raised THEN <<"strict", "repair">>
                                ELSE <<"strict", "repair", "literal">>
                     /\ (first.raised \/ first.value[1].type # "dict") =>
                           /\ ~analyze_one[k].unitRaised
                           /\ RecordOf(k) =
                                 AnalysisRecord(t, 0, "Could not parse LLM output.")

\* the characters of the message item k got, <<>> for a message that is not
\* written out
GivenChars(k) ==
    IF "chars" \in DOMAIN analyze_one[k].said[1].parts[1]
    THEN analyze_one[k].said[1].parts[1].chars ELSE <<>>

\* braces opened minus braces closed in s
BraceDepth(s) ==
    Cardinality({i \in 1..Len(s) : s[i] = LB}) - Cardinality({i \in 1..Len(s) : s[i] = RB})

\* s from its first "{" to the first place where as many braces are closed as
\* were opened (to its end when there is none; all of s without "{")
BraceGroup(s) ==
    LET start == Find(s, LB)
        ends == {e \in start..Len(s) : BraceDepth(SubSeq(s, start, e)) = 0}
    IN  IF start = 0 THEN s
        ELSE IF ends = {} THEN SubSeq(s, start, Len(s))
        ELSE SubSeq(s, start, CHOOSE e \in ends : \A f \in ends : e <= f)

\* C21: a message that holds a well-formed object with the keys
\* predicted_change_pct and reason, in double or single quotes, with prose
\* and fence markers around it, gives the record with the number and the
\* reason of that object; the block parsed is the message from its first "{"
\* to the place where the brace depth is back at zero.
C21_EmbeddedObjectExtracted ==
    \A k \in 1..Len(analyze_one) :
        Parsed(k) =>
            \A pre \in Before, post \in After, qk \in Quotes, qs \in Quotes,
               r \in Reasons :
                GivenChars(k) = pre \o ObjectChars(qk, qs, r) \o post =>
                    /\ ~analyze_one[k].unitRaised
                    /\ RecordOf(k) = AnalysisRecord(gathered_data[k].key, 2, Concat(r))
                    /\ JsonBlock(Strip(GivenChars(k))) = BraceGroup(Strip(GivenChars(k)))

\* what the first parser that reads the text makes of it
FirstParsed(text) ==
    IF ~text.strict.raised THEN text.strict
    ELSE IF ~text.repair.raised THEN text.repair
    ELSE text.literal

\* the message of item k was read as a dict
ParsedDict(k) ==
    /\ Parsed(k)
    /\ GivenText(k).form # "empty"
    /\ ~FirstParsed(GivenText(k)).raised
    /\ FirstParsed(GivenText(k)).value[1].type = "dict"

\* a value float() turns into a number
Coercible(f) == f.t \in {"num", "numstr"}

\* a reason that is absent, empty or white space only
NoReason(f) == f \in {NoField, Str(""), Str("  ")}

\* C22: every record of analysis_results has a number under
\* predicted_change_pct and a non-empty string under reason; for a message
\* read as a dict, predicted_change_pct is the number of the dict, 0 when it
\* is absent or not coercible, and reason is "No reason provided." when the
\* dict has none, an empty one or white space only.
C22_RecordFieldsDefaulted ==
    /\ \A n \in 1..Len(analysis_results) :
          /\ analysis_results[n].predicted_change_pct \in Int
          /\ analysis_results[n].reason \notin {"", "  "}
    /\ \A k \in 1..Len(analyze_one) :
          ParsedDict(k) =>
              LET d == FirstParsed(GivenText(k)).value[1]
              IN  /\ RecordOf(k).predicted_change_pct =
                        IF Coercible(d.pct) THEN d.pct.n ELSE 0
                  /\ NoReason(d.reason) => RecordOf(k).reason = "No reason provided."

-----------------------------------------------------------------------------
(* Partial context *)

\* the record carries the error marker of a failed context search in both
\* lists, and price data without error marker
ContextFailedOnly(data) ==
    /\ data.news = <<"Error: " \o TimedOut.msg>>
    /\ data.macro = <<"Error: " \o TimedOut.msg>>
    /\ ~MarketDataFailed(data)

\* C23: when the context search of an identifier raises and its market-data
\* call returns price data, _fetch_one_ticker_sync returns a record with the
\* error marker in news and in macro, nothing is raised to gather_data_node
\* and the identifier is in gathered_data; analyst_node does not skip such
\* an item: its generation call is made (unless the executor refuses the
\* call) and it has its record in analysis_results.
C23_ContextFailureKeepsItem ==
    /\ \A i \in 1..Len(fetch_one) :
          ( /\ fetch_one[i].pc = "done"
            /\ fetch_one[i].ctxRaised # <<>>
            /\ fetch_one[i].priceRaised = <<>> )
          => /\ ~fetch_one[i].unitRaised
             /\ fetch_one[i].result[1].kind = "tuple"
             /\ fetch_one[i].result[1].data # <<>>
             /\ fetch_one[i].result[1].data[1].news = <<"Error: " \o TimedOut.msg>>
             /\ fetch_one[i].result[1].data[1].macro = <<"Error: " \o TimedOut.msg>>
             /\ AfterGather => tickers[i] \in Keys(gathered_data)
    /\ error = <<>> \/ error[1].node # "gather_data"
    /\ (InAnalyst \/ AfterAnalyst) =>
          \A k \in 1..Len(analyze_one) :
              ContextFailedOnly(gathered_data[k].value) =>
                  /\ analyze_one[k].pc = "done" =>
                        /\ analyze_one[k].result[1].kind = "dict"
                        /\ RecordOf(k).ticker = gathered_data[k].key
                        /\ \/ analyze_one[k].genCalls >= 1
                           \/ RecordOf(k).reason = "Error: " \o ExecutorFault.msg
                  /\ AfterAnalyst => HasRecord(gathered_data[k].key)

\* analyst_node returned a record for an item whose context search had
\* failed, after making its generation call
C23_Witness ==
    /\ AfterAnalyst
    /\ \E i \in 1..Len(fetch_one) : fetch_one[i].ctxRaised # <<>> /\ ~fetch_one[i].unitRaised
    /\ \E k \in 1..Len(analyze_one) :
          /\ ContextFailedOnly(gathered_data[k].value)
          /\ analyze_one[k].genCalls >= 1
          /\ HasRecord(gathered_data[k].key)

-----------------------------------------------------------------------------
(* Normalisation of the ticker list *)

\* an entry that is None, empty or white space only
IsBlankEntry(t) == t = None \/ \A i \in 1..Len(t) : t[i] = " "

\* the entry without the blanks before its first and after its last
\* character that is no blank
Trimmed(t) ==
    LET solid == {i \in 1..Len(t) : t[i] # " "}
    IN  SubSeq(t, CHOOSE i \in solid : \A j \in solid : i <= j,
                  CHOOSE i \in solid : \A j \in solid : i >= j)

\* the places of the entries that are kept, and the j-th of them
KeptPlaces(ts) == {i \in 1..Len(ts) : ~IsBlankEntry(ts[i])}

KeptPlace(ts, j) ==
    CHOOSE i \in KeptPlaces(ts) : Cardinality({m \in KeptPlaces(ts) : m <= i}) = j

\* out is ts without its blank entries, each other entry trimmed and in upper
\* case, in the order of ts, with every duplicate kept
IsNormalized(out, ts) ==
    /\ Len(out) = Cardinality(KeptPlaces(ts))
    /\ \A j \in 1..Len(out) : out[j] = Upper(Trimmed(ts[KeptPlace(ts, j)]))

\* C24: select_ticker_node returns the list without its None, empty and
\* blank entries, every other entry trimmed and upper-cased, in the original
\* order and with duplicates kept; applied to its own result it returns that
\* result.
C24_SelectTickerNormalizes ==
    [][pc = "select_ticker" =>
          /\ IsNormalized(tickers', tickers)
          /\ select_ticker_node(tickers') = tickers']_vars

\* select_ticker_node returned the same identifier twice, from a list that
\* had a blank entry and two spellings of that identifier
C24_Witness ==
    /\ pc = "gather_data"
    /\ calls # <<>>
    /\ Len(tickers) < Len(Head(calls).tickers)
    /\ \E i, j \in 1..Len(tickers) : i # j /\ tickers[i] = tickers[j]
    /\ \E i, j \in 1..Len(Head(calls).tickers) :
          /\ Head(calls).tickers[i] # Head(calls).tickers[j]
          /\ ~IsBlankEntry(Head(calls).tickers[i])
          /\ ~IsBlankEntry(Head(calls).tickers[j])
          /\ Trimmed(Head(calls).tickers[i]) # Head(calls).tickers[i]
          /\ Upper(Trimmed(Head(calls).tickers[i])) = Upper(Trimmed(Head(calls).tickers[j]))

-----------------------------------------------------------------------------
(* Order of completion *)

\* the items fetched one after the other, in the order of the list
RECURSIVE SeqGather(_, _)
SeqGather(ts, acc) ==
    IF ts = <<>> THEN acc
    ELSE LET t == Head(ts)
             res == IF World(t).fetch_exec = "ran"
                    THEN fetch_one_ticker_sync(t, World(t).price, World(t).ctx, TRUE)
                    ELSE Raised(ExecutorFault)
         IN  SeqGather(Tail(ts), IF res.raised THEN acc ELSE DictSet(acc, t, res.value[1]))

\* the gathered items analysed one after the other, in the order of the mapping
RECURSIVE SeqAnalyze(_)
SeqAnalyze(gd) ==
    IF gd = <<>> THEN <<>>
    ELSE LET t == Head(gd).key
             res == IF World(t).gen_exec = "ran"
                    THEN analyze_one_ticker_sync(t, World(t).gen)
                    ELSE Raised(ExecutorFault)
         IN  IF PricesError(Head(gd).value) THEN SeqAnalyze(Tail(gd))
             ELSE <<AnalyzeOneResult(t, res).rec[1]>> \o SeqAnalyze(Tail(gd))

\* C25: with the outcome of every per-item call fixed by its identifier,
\* whatever the order in which the concurrent items get their permits and
\* complete, gather_data_node returns the mapping that fetching the items one
\* by one in list order gives, analyst_node the list that analysing them one
\* by one gives, and ranking_node the ranking of that list.
C25_CompletionOrderIrrelevant ==
    /\ AfterGather => gathered_data = SeqGather(tickers, <<>>)
    /\ AfterAnalyst => analysis_results = SeqAnalyze(gathered_data)
    /\ (mode = "run_pipeline" /\ pc \in {"sheets_writer", "END"}) =>
          ranked_results = ranking_node(SeqAnalyze(SeqGather(tickers, <<>>)))

\* gather_data_node has returned the mapping of a batch of two, and in
\* analyst_node the second item is done before the first has begun
C25_Witness ==
    /\ pc = "analyzing"
    /\ Len(analyze_one) = 2
    /\ analyze_one[2].pc = "done"
    /\ analyze_one[1].pc = "pending"
    /\ Len(fetch_one) = 2
    /\ gathered_data = SeqGather(tickers, <<>>)
    /\ gathered_data[1].key # gathered_data[2].key

-----------------------------------------------------------------------------
(* Termination and permits *)

\* the stage asked for has returned to its caller
StageReturned == pc = "idle" /\ mode = "idle" /\ calls = <<>>

\* C26: a batch stage terminates and leaks no permit, for every batch size up
\* to MaxBatch (above CONCURRENCY_LIMIT) and every mix of items that succeed
\* and fail: the permits that are free are always those not held by an item
\* at work, and in the end the stage has returned with every item done
\* (completed, or skipped for want of price data) and all CONCURRENCY_LIMIT
\* permits free.
C26_TerminatesNoPermitLeak ==
    /\ [](sem = CONCURRENCY_LIMIT
                - (IF pc = "gathering" THEN InFlightFetch ELSE 0)
                - (IF pc = "analyzing" THEN InFlightAnalyze ELSE 0))
    /\ <>[](StageReturned /\ sem = CONCURRENCY_LIMIT /\ AllFetched /\ AllAnalyzed)

\* a stage returned with every permit free after a batch larger than the
\* limit, in which one item failed and another succeeded
C26_Witness ==
    /\ StageReturned
    /\ sem = CONCURRENCY_LIMIT
    /\ \/ /\ Len(fetch_one) > CONCURRENCY_LIMIT
          /\ AllFetched
          /\ \E i, j \in 1..Len(fetch_one) :
                fetch_one[i].unitRaised /\ ~fetch_one[j].unitRaised
       \/ /\ Len(analyze_one) > CONCURRENCY_LIMIT
          /\ AllAnalyzed
          /\ \E i, j \in 1..Len(analyze_one) :
                analyze_one[i].unitRaised /\ ~analyze_one[j].unitRaised

-----------------------------------------------------------------------------
(* Frame of the stages *)

\* C27: with an empty gathered_data artifact run_stage_analyze returns at
\* once, with no result and without writing the analysis_results artifact:
\* the state directory stays as it was throughout the stage, and a
\* run_stage_rank that follows ranks what the analysis_results artifact of an
\* earlier run holds.
C27_EmptyInputLeavesArtifact ==
    /\ [][(mode = "run_stage_analyze" /\ IsEmpty(files.gathered_data)) =>
             /\ files' = files
             /\ pc' = "idle" /\ mode' = "idle"
             /\ analysis_results' = <<>>
             /\ error' = <<>>]_vars
    /\ []((mode = "run_stage_rank" /\ calls = <<>> /\ IsEmpty(files.gathered_data)
            /\ pc \in {"ranking", "save_ranked_results"}) =>
             /\ files.analysis_results = <<JsonDump(RecordList(<<2>>))>>
             /\ analysis_results = RecordList(<<2>>))

\* run_stage_rank, after a run_stage_analyze that found nothing gathered, has
\* loaded the record of the earlier run
C27_Witness ==
    /\ mode = "run_stage_rank"
    /\ pc = "ranking"
    /\ calls = <<>>
    /\ IsEmpty(files.gathered_data)
    /\ analysis_results = RecordList(<<2>>)

\* the artifacts other than the one named
Others(name) == {"gathered_data", "analysis_results", "ranked_results"} \ {name}

\* a step leaves the artifacts of these names as they are
Untouched(names) == \A n \in names : files'[n] = files[n]

\* C28: in a staged run every stage writes its own artifact only:
\* run_stage_gather gathered_data, run_stage_analyze analysis_results,
\* run_stage_rank ranked_results, run_stage_sheets none; and ranking_node
\* leaves the analysis_results it is given as they are.
C28_StagesWriteOwnArtifactOnly ==
    [][/\ mode = "run_stage_gather" => Untouched(Others("gathered_data"))
       /\ mode = "run_stage_analyze" => Untouched(Others("analysis_results"))
       /\ mode = "run_stage_rank" => Untouched(Others("ranked_results"))
       /\ mode = "run_stage_sheets" => files' = files
       /\ pc = "ranking" => analysis_results' = analysis_results]_vars

\* a staged run has gone through its four stages: the three artifacts are
\* there, each as its stage wrote it, and the ranked records went to the sheet
C28_Witness ==
    /\ calls = <<>>
    /\ mode = "idle"
    /\ error = <<>>
    /\ files.gathered_data # <<>> /\ files.gathered_data[1].json # <<>>
    /\ files.analysis_results # <<>> /\ files.analysis_results[1].json # <<>>
    /\ files.ranked_results # <<>> /\ files.ranked_results[1].json # <<>>
    /\ files.ranked_results # files.analysis_results
    /\ sink # <<>>
    /\ sink[Len(sink)].op = "append_results_to_sheet"

-----------------------------------------------------------------------------
(* Delivery of the ranked results *)

\* neither the state nor the environment names a sheet
NoSheet == sheet_id = "" /\ env.GOOGLE_SHEET_ID = ""

\* the sink got exactly one more call: an append, to a named sheet, of rows
OneAppend(before, after, rows) ==
    /\ Len(after) = Len(before) + 1
    /\ SubSeq(after, 1, Len(before)) = before
    /\ after[Len(after)].op = "append_results_to_sheet"
    /\ after[Len(after)].target \in {sheet_id, env.GOOGLE_SHEET_ID} \ {""}
    /\ after[Len(after)].rows = rows

\* C29: sheets_writer_node writes nothing and returns without an error when
\* there are no ranked results or when neither the state nor the environment
\* names a sheet; otherwise it calls the sink exactly once, with all ranked
\* records in that one call
C29_SheetsWriterOneCallOrNone ==
    [][pc = "sheets_writer" =>
          IF ranked_results = <<>> \/ NoSheet
          THEN /\ sink' = sink
               /\ error' = <<>>
               /\ pc' # "raised"
          ELSE OneAppend(sink, sink', ranked_results)]_vars

\* a whole run without GOOGLE_SHEET_ID whose caller named a sheet has ended
\* with its ranked records appended to that sheet in one call
C29_Witness ==
    /\ mode = "run_pipeline"
    /\ pc = "END"
    /\ env.GOOGLE_SHEET_ID = ""
    /\ sheet_id = "arg-sheet"
    /\ ranked_results # <<>>
    /\ sink # <<>>
    /\ sink[Len(sink)] = SinkCall("append_results_to_sheet", "arg-sheet",
                                   ranked_results, "ok")
    /\ \A i \in 1..(Len(sink) - 1) : sink[i].op # "append_results_to_sheet"

====
